---- MODULE Spec2Model ----
(***************************************************************************)
(* The View Syncer service of zero-cache (view-syncer.ts): one service per *)
(* client group, its lock, its CVR snapshot pointer, its client handlers   *)
(* and its run loop, together with the collaborators it drives: the CVR    *)
(* store and updaters, the pipeline driver and the client handler/poker.   *)
(***************************************************************************)
EXTENDS Integers, Sequences, FiniteSets, TLC

\* ------------------------------------------------------------------ bounds
\* The replica starts at state version 1 and advances up to MaxStateVersion.
MaxStateVersion == 2
\* Number of initConnection / changeDesiredQueries calls in one behaviour.
MaxRequests == 3
\* Number of storage errors (Unavailable) the environment injects.
MaxFaults == 1
\* The withLock calls that wait for the lock at one time.
MaxWaiting == 2
\* keepaliveMs, in ticks of the clock.
KeepaliveTicks == 2
\* The longest change stream handed to #processChanges on its own.
MaxChanges == 3
\* The largest page size it is run with (in place of CURSOR_PAGE_SIZE).
MaxPage == 2
\* updateClients calls and setClient calls in one behaviour.
MaxUpdates == 3
MaxSetClients == 1
\* createRoom, closeRoom and deleteRoom calls in one behaviour.
MaxRoomCalls == 4

\* ------------------------------------------------------------- the universe
Clients == {"a", "b"}
\* The clients are interchangeable: the first one to connect is called "a".
FirstClient == "a"
\* Queries with a valid AST, and one whose AST names a nonexistent column.
Queries == {"q1", "q2"}
BadQuery == "bad"
NoQuery == ""
AllQueries == Queries \cup {BadQuery}
Rows == {"r1", "r2"}
\* Contents of a replicated row (the selected columns).
Vals == {0, 1}
\* A row that is not there (in the replica, or in a client's view).
Absent == -1
\* Contents with an integer too large for the protocol (not a safe integer).
Unsafe == 2
\* A message whose wsID is the one of a connection that is gone.
StaleWsID == 0

\* "q1" selects every row of the table, "q2" the rows whose value is 1.
Matches(q, val) == IF q = "q1" THEN TRUE ELSE IF q = "q2" THEN val = 1 ELSE FALSE

\* ---------------------------------------------------------------- versions
\* A CVR version is <<stateVersion, minorVersion>>.
NullVersion == <<0, 0>>
NoVersion == <<-1, -1>>

cmpVersions(a, b) ==
    IF a[1] < b[1] THEN -1
    ELSE IF a[1] > b[1] THEN 1
    ELSE IF a[2] < b[2] THEN -1
    ELSE IF a[2] > b[2] THEN 1
    ELSE 0


\* ------------------------------------------------------------- CVR records
NoClientRecord == [present |-> FALSE, patchVersion |-> NoVersion, desiredQueryIDs |-> {}]
NoQueryRecord ==
    [present |-> FALSE, desiredBy |-> [c \in Clients |-> NoVersion], internal |-> FALSE,
     got |-> FALSE, patchVersion |-> NoVersion]
NoRowRecord ==
    [present |-> FALSE, patchVersion |-> NoVersion, rowVersion |-> 0,
     refCounts |-> [q \in Queries |-> 0]]

\* load() of a group without a record: the empty CVR at version (00, 0).
\* `order` is the insertion order of the keys of `queries`.
EmptyCVR ==
    [version |-> NullVersion,
     clients |-> [c \in Clients |-> NoClientRecord],
     queries |-> [q \in AllQueries |-> NoQueryRecord],
     order |-> << >>,
     rows |-> [r \in Rows |-> NoRowRecord]]

\* #cvr before the CVR is loaded (undefined).
NoCVR == [EmptyCVR EXCEPT !.version = NoVersion]

\* A query is desired iff internal or desired by some client; got iff it has
\* a transformation hash.
IsDesired(q) == q.present /\ (q.internal \/ \E c \in Clients : q.desiredBy[c] # NoVersion)
DesiredQueries(cvr) == {q \in AllQueries : IsDesired(cvr.queries[q])}
AllClientQueries(cvr) == {q \in AllQueries : cvr.queries[q].present}
GotQueries(cvr) == {q \in AllQueries : cvr.queries[q].present /\ cvr.queries[q].got}

\* A row record whose refCounts are null (a tombstone, sent as a delete).
RefQueries(row) == {q \in Queries : row.refCounts[q] > 0}
IsTombstone(row) == row.present /\ RefQueries(row) = {}

\* ------------------------------------------------------------ sequences
InSeq(s, x) == \E i \in 1..Len(s) : s[i] = x

RECURSIVE FilterSeq(_, _)
FilterSeq(s, keep) ==
    IF s = << >> THEN << >>
    ELSE IF Head(s) \in keep THEN << Head(s) >> \o FilterSeq(Tail(s), keep)
    ELSE FilterSeq(Tail(s), keep)


\* ------------------------------------------- config-driven updater (cvr.ts)
Put(q) == [op |-> "put", hash |-> q]
Del(q) == [op |-> "del", hash |-> q]
Clear == [op |-> "clear", hash |-> ""]

\* The version a config-driven updater writes: minorVersion bumped.
ConfigNewVersion(cvr) == << cvr.version[1], cvr.version[2] + 1 >>

EnsureClient(cvr, c, v) ==
    IF cvr.clients[c].present THEN cvr
    ELSE [cvr EXCEPT !.clients[c] =
             [present |-> TRUE, patchVersion |-> v, desiredQueryIDs |-> {}]]

putDesiredQueries(cvr, c, q, v) ==
    LET w == EnsureClient(cvr, c, v) IN
    [w EXCEPT !.clients[c].desiredQueryIDs = @ \cup {q},
              !.queries[q] = IF @.present THEN [@ EXCEPT !.desiredBy[c] = v]
                             ELSE [NoQueryRecord EXCEPT !.present = TRUE, !.desiredBy[c] = v],
              !.order = IF InSeq(@, q) THEN @ ELSE Append(@, q)]

deleteDesiredQueries(cvr, c, qs) ==
    [cvr EXCEPT !.clients[c].desiredQueryIDs = @ \ qs,
                !.queries = [q \in AllQueries |->
                    IF q \in qs /\ @[q].present THEN [@[q] EXCEPT !.desiredBy[c] = NoVersion]
                    ELSE @[q]]]

clearDesiredQueries(cvr, c) == deleteDesiredQueries(cvr, c, cvr.clients[c].desiredQueryIDs)

\* The loop over desiredQueriesPatch in #patchQueries.
RECURSIVE ApplyPatch(_, _, _, _)
ApplyPatch(cvr, c, patch, v) ==
    IF patch = << >> THEN cvr
    ELSE LET p == Head(patch)
             w == IF p.op = "put" THEN putDesiredQueries(cvr, c, p.hash, v)
                  ELSE IF p.op = "del" THEN deleteDesiredQueries(cvr, c, {p.hash})
                  ELSE clearDesiredQueries(cvr, c)
         IN ApplyPatch(w, c, Tail(patch), v)

\* A flush that writes the patches and leaves the CVR's version as it was.
ConfigFlush_StaleVersion(cvr, c, patch) ==
    ApplyPatch(cvr, c, patch, ConfigNewVersion(cvr))

\* An updater that makes a new version for every op of the patch.
ConfigFlush_VersionPerOp(cvr, c, patch) ==
    [ApplyPatch(cvr, c, patch, << cvr.version[1], cvr.version[2] + Len(patch) >>)
        EXCEPT !.version = << cvr.version[1], cvr.version[2] + Len(patch) >>]

\* CVRConfigDrivenUpdater.flush: the staged CVR at the bumped version.
ConfigFlush(cvr, c, patch) ==
    [ApplyPatch(cvr, c, patch, ConfigNewVersion(cvr)) EXCEPT !.version = ConfigNewVersion(cvr)]

\* --------------------------------------------- pipeline driver (replica side)
\* A replicated row: its contents and its _0_version column (0 stands for a
\* missing or empty _0_version).
NoRow == [val |-> Absent, version |-> 0]
RowOrder == << "r1", "r2" >>
QueryOrder == << "q1", "q2" >>

RowChange(q, r, row) == [queryHash |-> q, rowKey |-> r, row |-> row]
RowMatches(q, row) == row.val # Absent /\ Matches(q, row.val)

\* addQuery: one RowChange (+1) per row of the snapshot that matches.
RECURSIVE HydrateRows(_, _, _)
HydrateRows(q, snap, rs) ==
    IF rs = << >> THEN << >>
    ELSE (IF RowMatches(q, snap[Head(rs)])
          THEN << RowChange(q, Head(rs), snap[Head(rs)]) >> ELSE << >>)
         \o HydrateRows(q, snap, Tail(rs))

\* A hydration that returns every row of the snapshot, matching or not.
addQuery_AllRows(q, snap) ==
    [i \in 1..Len(FilterSeq(RowOrder, {r \in Rows : snap[r].val # Absent})) |->
        RowChange(q, FilterSeq(RowOrder, {r \in Rows : snap[r].val # Absent})[i],
                  snap[FilterSeq(RowOrder, {r \in Rows : snap[r].val # Absent})[i]])]

addQuery(q, snap) == HydrateRows(q, snap, RowOrder)

\* advance: the changes of one row for one query between two snapshots.
ChangesFor(q, r, old, new) ==
    LET was == RowMatches(q, old[r])
        now == RowMatches(q, new[r])
    IN IF old[r] = new[r] THEN << >>
       ELSE (IF was THEN << RowChange(q, r, NoRow) >> ELSE << >>)
            \o (IF now THEN << RowChange(q, r, new[r]) >> ELSE << >>)

RECURSIVE AdvanceQueries(_, _, _, _, _)
AdvanceQueries(qs, r, old, new, added) ==
    IF qs = << >> THEN << >>
    ELSE (IF Head(qs) \in added THEN ChangesFor(Head(qs), r, old, new) ELSE << >>)
         \o AdvanceQueries(Tail(qs), r, old, new, added)

RECURSIVE AdvanceRows(_, _, _, _)
AdvanceRows(rs, old, new, added) ==
    IF rs = << >> THEN << >>
    ELSE AdvanceQueries(QueryOrder, Head(rs), old, new, added)
         \o AdvanceRows(Tail(rs), old, new, added)

advance(old, new, added) == AdvanceRows(RowOrder, old, new, added)

\* ------------------------------------------------ #processChanges (batches)
CURSOR_PAGE_SIZE == 10000

\* A RowUpdate of the per-batch CustomKeyMap; `seen` says the key is in the
\* map, `n` counts the changes of the stream that went into the entry.
NoRowUpdate ==
    [seen |-> FALSE, refCounts |-> [q \in Queries |-> 0], version |-> 0, contents |-> Absent,
     n |-> 0]
EmptyBatch == [r \in Rows |-> NoRowUpdate]
BatchSize(rows) == Cardinality({r \in Rows : rows[r].seen})

\* The changes that went into a map.
RECURSIVE ChangesOf(_, _)
ChangesOf(rs, rows) ==
    IF rs = << >> THEN 0 ELSE rows[Head(rs)].n + ChangesOf(Tail(rs), rows)
BatchChanges(rows) == ChangesOf(RowOrder, rows)

\* A loop that hands the map over after every pageSize changes, rather than
\* when it holds pageSize rows.
RECURSIVE processChanges_CountsChanges(_, _, _, _)
processChanges_CountsChanges(changes, rows, batches, pageSize) ==
    IF changes = << >>
    THEN [batches |-> IF BatchSize(rows) > 0 THEN Append(batches, rows) ELSE batches,
          err |-> FALSE, rows |-> IF BatchSize(rows) > 0 THEN EmptyBatch ELSE rows]
    ELSE LET change == Head(changes)
             isRow == change.row.val # Absent
             parsed1 == [rows[change.rowKey] EXCEPT
                            !.seen = TRUE,
                            !.n = @ + 1,
                            !.refCounts[change.queryHash] = @ + (IF isRow THEN 1 ELSE -1)]
             parse == isRow /\ parsed1.version = 0
             parsed2 == IF parse
                        THEN [parsed1 EXCEPT !.version = change.row.version,
                                             !.contents = change.row.val]
                        ELSE parsed1
             rows1 == [rows EXCEPT ![change.rowKey] = parsed2]
         IN IF parse /\ change.row.version = 0
            THEN [batches |-> batches, err |-> TRUE, rows |-> rows1]
            ELSE IF BatchChanges(rows1) % pageSize = 0
            THEN processChanges_CountsChanges(Tail(changes), EmptyBatch,
                                              Append(batches, rows1), pageSize)
            ELSE processChanges_CountsChanges(Tail(changes), rows1, batches, pageSize)

\* A loop that takes the version and contents of a row from every change
\* that carries the row, not only from the first of the batch.
RECURSIVE processChanges_LastContents(_, _, _, _)
processChanges_LastContents(changes, rows, batches, pageSize) ==
    IF changes = << >>
    THEN [batches |-> IF BatchSize(rows) > 0 THEN Append(batches, rows) ELSE batches,
          err |-> FALSE, rows |-> IF BatchSize(rows) > 0 THEN EmptyBatch ELSE rows]
    ELSE LET change == Head(changes)
             isRow == change.row.val # Absent
             parsed1 == [rows[change.rowKey] EXCEPT
                            !.seen = TRUE,
                            !.n = @ + 1,
                            !.refCounts[change.queryHash] = @ + (IF isRow THEN 1 ELSE -1)]
             parsed2 == IF isRow
                        THEN [parsed1 EXCEPT !.version = change.row.version,
                                             !.contents = change.row.val]
                        ELSE parsed1
             rows1 == [rows EXCEPT ![change.rowKey] = parsed2]
         IN IF isRow /\ change.row.version = 0
            THEN [batches |-> batches, err |-> TRUE, rows |-> rows1]
            ELSE IF BatchSize(rows1) % pageSize = 0
            THEN processChanges_LastContents(Tail(changes), EmptyBatch,
                                             Append(batches, rows1), pageSize)
            ELSE processChanges_LastContents(Tail(changes), rows1, batches, pageSize)

\* The loop of #processChanges: the batches handed to updater.received, in
\* order, whether the loop threw on an invalid _0_version, and the map as the
\* loop leaves it.
RECURSIVE processChanges(_, _, _, _)
processChanges(changes, rows, batches, pageSize) ==
    IF changes = << >>
    THEN [batches |-> IF BatchSize(rows) > 0 THEN Append(batches, rows) ELSE batches,
          err |-> FALSE, rows |-> IF BatchSize(rows) > 0 THEN EmptyBatch ELSE rows]
    ELSE LET change == Head(changes)
             isRow == change.row.val # Absent
             parsed1 == [rows[change.rowKey] EXCEPT
                            !.seen = TRUE,
                            !.n = @ + 1,
                            !.refCounts[change.queryHash] = @ + (IF isRow THEN 1 ELSE -1)]
             parse == isRow /\ parsed1.version = 0
             parsed2 == IF parse
                        THEN [parsed1 EXCEPT !.version = change.row.version,
                                             !.contents = change.row.val]
                        ELSE parsed1
             rows1 == [rows EXCEPT ![change.rowKey] = parsed2]
         IN IF parse /\ change.row.version = 0
            THEN [batches |-> batches, err |-> TRUE, rows |-> rows1]
            ELSE IF BatchSize(rows1) % pageSize = 0
            THEN processChanges(Tail(changes), EmptyBatch, Append(batches, rows1), pageSize)
            ELSE processChanges(Tail(changes), rows1, batches, pageSize)

\* -------------------------------------------- query-driven updater (cvr.ts)
\* An updater holds the staged CVR, the version of the CVR it started from
\* and the queries it removed; `calls` lists the calls made on it that
\* returned, in order.
NewQueryDrivenUpdater(cvr, stateVersion) ==
    [cvr |-> IF stateVersion > cvr.version[1]
             THEN [cvr EXCEPT !.version = << stateVersion, 0 >>] ELSE cvr,
     orig |-> cvr.version,
     removed |-> {},
     calls |-> << >>]

updatedVersion(u) == u.cvr.version

\* The first modification at an unchanged stateVersion bumps minorVersion.
ensureNewVersion(u) ==
    IF u.cvr.version = u.orig
    THEN [u EXCEPT !.cvr.version = << @[1], @[2] + 1 >>] ELSE u

trackQueries(u, add, remove) ==
    LET w == ensureNewVersion(u)
        v == w.cvr.version
    IN [w EXCEPT
          !.cvr.queries = [q \in AllQueries |->
              IF InSeq(remove, q) THEN NoQueryRecord
              ELSE IF InSeq(add, q) THEN [@[q] EXCEPT !.got = TRUE, !.patchVersion = v]
              ELSE @[q]],
          !.cvr.order = FilterSeq(@, AllQueries \ {q \in AllQueries : InSeq(remove, q)}),
          !.removed = {q \in AllQueries : InSeq(remove, q)}]

\* Row patches are a map from row to the value put, Absent for a delete, or
\* NoPatch.
NoPatch == -2

MergedRefCounts(row, update) ==
    [q \in Queries |->
        IF row.refCounts[q] + update.refCounts[q] > 0
        THEN row.refCounts[q] + update.refCounts[q] ELSE 0]

\* received: the row record written for one RowUpdate.
ReceivedRow(row, update, v) ==
    LET merged == MergedRefCounts(row, update) IN
    IF \A q \in Queries : merged[q] = 0
    THEN [present |-> TRUE, patchVersion |-> v,
          rowVersion |-> IF update.version # 0 THEN update.version ELSE row.rowVersion,
          refCounts |-> merged]
    ELSE IF update.contents # Absent
    THEN [present |-> TRUE, patchVersion |-> v, rowVersion |-> update.version,
          refCounts |-> merged]
    ELSE [row EXCEPT !.present = TRUE, !.refCounts = merged]

\* received: the patch emitted for one RowUpdate.
ReceivedPatch(row, update) ==
    LET merged == MergedRefCounts(row, update) IN
    IF \A q \in Queries : merged[q] = 0 THEN Absent
    ELSE IF update.contents # Absent THEN update.contents
    ELSE NoPatch

received(u, rows) ==
    LET w == IF BatchSize(rows) > 0 THEN ensureNewVersion(u) ELSE u
        v == w.cvr.version
    IN [w EXCEPT !.cvr.rows = [r \in Rows |->
                     IF rows[r].seen THEN ReceivedRow(@[r], rows[r], v) ELSE @[r]],
                 !.calls = Append(@, "received")]

receivedPatches(u, rows) ==
    [r \in Rows |-> IF rows[r].seen THEN ReceivedPatch(u.cvr.rows[r], rows[r]) ELSE NoPatch]

\* deleteUnreferencedRows: the rows that lose their last reference with the
\* removed queries become tombstones at the new version.
LosesLastReference(row, removed) ==
    /\ row.present
    /\ RefQueries(row) # {}
    /\ RefQueries(row) \subseteq removed

deleteUnreferencedRows(u) ==
    LET v == u.cvr.version IN
    [u EXCEPT !.cvr.rows = [r \in Rows |->
        IF LosesLastReference(@[r], u.removed)
        THEN [@[r] EXCEPT !.patchVersion = v, !.refCounts = [q \in Queries |-> 0]]
        ELSE [@[r] EXCEPT !.refCounts =
                 [q \in Queries |-> IF q \in u.removed THEN 0 ELSE @[q]]]],
              !.calls = Append(@, "deleteUnreferencedRows")]

\* A finalization that emits no patch for the rows it unreferences.
deletePatches_None(u) == [r \in Rows |-> NoPatch]

deletePatches(u) ==
    [r \in Rows |-> IF LosesLastReference(u.cvr.rows[r], u.removed) THEN Absent ELSE NoPatch]

\* ------------------------------------------------------ CVR store catch-up
\* catchupRowPatches: the row records patched after `from` and up to the
\* version of `cvr`, but for those only referenced by excluded queries.
catchupRowPatches(stored, from, cvr, excludeQueryHashes) ==
    {r \in Rows :
        /\ stored.rows[r].present
        /\ cmpVersions(stored.rows[r].patchVersion, from) > 0
        /\ cmpVersions(stored.rows[r].patchVersion, cvr.version) <= 0
        /\ ~(RefQueries(stored.rows[r]) # {}
             /\ RefQueries(stored.rows[r]) \subseteq excludeQueryHashes)}

\* ------------------------------------------- client handler and its poker
\* A handler of the #clients map. `version` is version(); `cookie` is the
\* cookie of the last pokeStart sent on the connection (the base cookie before
\* the first); `staged` is the client's view with the patches of the open
\* poke applied. `monotone` and `framed` record what the downstream has
\* carried so far: every pokeStart had a cookie above the one before, and no
\* pokeStart was sent inside an open poke. `queryPuts`, `hydrated` and
\* `caughtUp` record what the open (or last) poke carried: the queries it
\* marked got, the rows put as the output of addQuery(q), and the rows put by
\* the catch-up together with the queries referencing them in the store;
\* `queryDels` and `rowDels` the queries and the rows it deleted.
EmptyView == [r \in Rows |-> Absent]
NoHandler ==
    [present |-> FALSE, wsID |-> StaleWsID, version |-> NullVersion, status |-> "none",
     inPoke |-> FALSE, cookie |-> NullVersion, staged |-> EmptyView,
     monotone |-> TRUE, framed |-> TRUE,
     queryPuts |-> {}, queryDels |-> {}, hydrated |-> {}, caughtUp |-> {}, rowDels |-> {}]

NewClientHandler(wsID, baseCookie, view) ==
    [present |-> TRUE, wsID |-> wsID, version |-> baseCookie, status |-> "open",
     inPoke |-> FALSE, cookie |-> baseCookie, staged |-> view,
     monotone |-> TRUE, framed |-> TRUE,
     queryPuts |-> {}, queryDels |-> {}, hydrated |-> {}, caughtUp |-> {}, rowDels |-> {}]

IsOpen(h) == h.present /\ h.status = "open"

\* startPoke: pokeStart(baseCookie = version(), cookie = newVersion).
startPoke(h, newVersion, view) ==
    IF ~IsOpen(h) THEN h
    ELSE [h EXCEPT !.inPoke = TRUE,
                   !.cookie = newVersion,
                   !.staged = view,
                   !.monotone = @ /\ cmpVersions(newVersion, h.cookie) > 0,
                   !.framed = @ /\ ~h.inPoke,
                   !.queryPuts = {}, !.queryDels = {}, !.hydrated = {}, !.caughtUp = {},
                   !.rowDels = {}]

ApplyPatches(view, patches) ==
    [r \in Rows |-> IF patches[r] = NoPatch THEN view[r] ELSE patches[r]]

\* addPatch catches the error of a patch it cannot send (contents that are
\* not safe JSON) and fails the downstream of its client with it; the caller
\* sees no error.
HasUnsafe(patches) == \E r \in Rows : patches[r] = Unsafe
failPoke(h) == [h EXCEPT !.status = "failed"]

\* The rows a patch map puts, and those it deletes.
PutRows(patches) == {r \in Rows : patches[r] # NoPatch /\ patches[r] # Absent}
DelRows(patches) == {r \in Rows : patches[r] = Absent}

\* addPatch, for every patch of the map.
addPatches(h, patches) ==
    IF IsOpen(h) /\ h.inPoke
    THEN IF HasUnsafe(patches) THEN failPoke(h)
         ELSE [h EXCEPT !.staged = ApplyPatches(@, patches),
                        !.rowDels = @ \cup DelRows(patches)]
    ELSE h

\* addPatch of the query patches of trackQueries: the queries `qs` are got.
addQueryPatches(h, qs) ==
    IF IsOpen(h) /\ h.inPoke THEN [h EXCEPT !.queryPuts = @ \cup qs] ELSE h

\* addPatch of the del query patches of trackQueries: the queries `qs` are
\* removed.
addQueryDelPatches(h, qs) ==
    IF IsOpen(h) /\ h.inPoke THEN [h EXCEPT !.queryDels = @ \cup qs] ELSE h

\* addPatch of the row patches that the hydration of query `hash` produced
\* (hash is NoQuery for the patches of an advancement).
addHydrationPatches(h, hash, patches) ==
    IF IsOpen(h) /\ h.inPoke /\ HasUnsafe(patches) THEN failPoke(h)
    ELSE IF IsOpen(h) /\ h.inPoke
    THEN [h EXCEPT !.staged = ApplyPatches(@, patches),
                   !.hydrated = IF hash = NoQuery THEN @
                                ELSE @ \cup {<< hash, r >> : r \in PutRows(patches)},
                   !.rowDels = @ \cup DelRows(patches)]
    ELSE h

\* addPatch of the catch-up row patches; refs[r] are the queries that
\* reference row r in the store.
addCatchupPatches(h, patches, refs) ==
    IF IsOpen(h) /\ h.inPoke /\ HasUnsafe(patches) THEN failPoke(h)
    ELSE IF IsOpen(h) /\ h.inPoke
    THEN [h EXCEPT !.staged = ApplyPatches(@, patches),
                   !.caughtUp = @ \cup {<< r, refs[r] >> : r \in PutRows(patches)},
                   !.rowDels = @ \cup DelRows(patches)]
    ELSE h

\* end: pokePart(s) and pokeEnd; the client is then at the poke's cookie.
endPoke(h) ==
    IF IsOpen(h) /\ h.inPoke THEN [h EXCEPT !.inPoke = FALSE, !.version = h.cookie] ELSE h

\* fail(err) and close(): the downstream subscription ends.
failHandler(h) == IF IsOpen(h) THEN [h EXCEPT !.status = "failed"] ELSE h
closeHandler(h) == IF IsOpen(h) THEN [h EXCEPT !.status = "closed"] ELSE h

\* A flush that is not atomic: the row patches are durable, the rest is not.
flush_RowsOnly(updated, stored) == [stored EXCEPT !.rows = updated.rows]

\* CVRStore flush(): the new version and all of its patches become durably
\* visible together; `stored` is what the store held before.
flush(updated, stored) == updated

\* -------------------------------------------------- the service's operations
\* The state an operation works on: #cvr, the durable CVR, the pipeline
\* driver, #clients, and what each client has committed (its view and cookie).
\* `err` names the error the operation threw, "none" if it returned.

\* pokers.forEach(poker => poker.addPatch(patch)) for a map of row patches.
PokeAll(pokers, patches) == [c \in Clients |-> addPatches(pokers[c], patches)]

\* pokers.forEach(poker => poker.addPatch(patchToVersion)) of #catchupClients.
PokeCatchup(pokers, patches, stored) ==
    [c \in Clients |->
        addCatchupPatches(pokers[c], patches, [r \in Rows |-> RefQueries(stored.rows[r])])]

\* pokers.forEach(poker => poker.addPatch(patch)) of #processChanges, for the
\* changes of pipelines.addQuery(hash).
PokeHydration(pokers, hash, patches) ==
    [c \in Clients |-> addHydrationPatches(pokers[c], hash, patches)]

\* pokers.forEach(poker => poker.end()): each client whose poke ends commits
\* its staged view at the poke's cookie.
EndAll(S, pokers) ==
    [S EXCEPT
       !.clients = [c \in Clients |-> endPoke(pokers[c])],
       !.views = [c \in Clients |->
           IF IsOpen(pokers[c]) /\ pokers[c].inPoke THEN pokers[c].staged ELSE @[c]],
       !.cookies = [c \in Clients |->
           IF IsOpen(pokers[c]) /\ pokers[c].inPoke THEN pokers[c].cookie ELSE @[c]],
       !.calls = Append(@, "end")]

\* The reduce of #catchupClients: the least version() of the handlers, or the
\* CVR's version when that is less.
CatchupFrom(handlers, cvr) ==
    LET vs == {handlers[c].version : c \in {d \in Clients : handlers[d].present}}
              \cup {cvr.version}
    IN CHOOSE v \in vs : \A w \in vs : cmpVersions(v, w) <= 0

\* The row loop of #catchupClients: a delete for a tombstone, else the row as
\* the pipeline has it now.
CatchupPatches(stored, rs, snap) ==
    [r \in Rows |->
        IF r \notin rs THEN NoPatch
        ELSE IF IsTombstone(stored.rows[r]) THEN Absent
        ELSE snap[r].val]

\* must(this.#pipelines.getRow(...)) fails for a referenced row that is gone.
MissingRow(stored, rs, snap) ==
    \E r \in rs : ~IsTombstone(stored.rows[r]) /\ snap[r].val = Absent

\* #catchupClients(lc, cvr, excludeQueryHashes, usePokers).
catchupClients(S, cvr, excludeQueryHashes, usePokers, pokersIn) ==
    LET catchupFrom == CatchupFrom(S.clients, cvr)
        Catchup(pokers, rs) ==
            IF MissingRow(S.store, rs, S.pipeline.snap)
            THEN [S EXCEPT !.clients = pokers, !.err = "MissingRow"]
            ELSE IF usePokers
            THEN [S EXCEPT !.clients =
                     PokeCatchup(pokers, CatchupPatches(S.store, rs, S.pipeline.snap),
                                 S.store)]
            ELSE EndAll(S, PokeCatchup(pokers,
                                       CatchupPatches(S.store, rs, S.pipeline.snap),
                                       S.store))
    IN Catchup(IF usePokers THEN pokersIn
               ELSE [c \in Clients |-> startPoke(S.clients[c], cvr.version, S.views[c])],
               catchupRowPatches(S.store, catchupFrom, cvr, excludeQueryHashes))

\* The batches of one #processChanges call, handed to updater.received and
\* poked in order. H is [u, pokers, added, err].
RECURSIVE ReceiveBatches(_, _, _)
ReceiveBatches(batches, hash, H) ==
    IF batches = << >> THEN H
    ELSE ReceiveBatches(Tail(batches), hash,
            [H EXCEPT !.u = received(H.u, Head(batches)),
                      !.pokers = PokeHydration(H.pokers, hash,
                                               receivedPatches(H.u, Head(batches)))])

\* The loop over addQueries in #addAndRemoveQueries.
RECURSIVE HydrateQueries(_, _, _)
HydrateQueries(addQueries, H, snap) ==
    IF addQueries = << >> THEN H
    ELSE IF Head(addQueries) = BadQuery THEN [H EXCEPT !.err = "BadQuery"]
    ELSE LET hash == Head(addQueries)
             Hydrate(pr, H1) ==
                 IF pr.err THEN [H1 EXCEPT !.err = "InvalidVersion"]
                 ELSE HydrateQueries(Tail(addQueries), H1, snap)
             Processed(pr) ==
                 Hydrate(pr, ReceiveBatches(pr.batches, hash, [H EXCEPT !.added = @ \cup {hash}]))
         IN Processed(processChanges(addQuery(hash, snap), EmptyBatch, << >>,
                                     CURSOR_PAGE_SIZE))

SeqToSet(s) == {s[i] : i \in 1..Len(s)}

\* #addAndRemoveQueries with a catch-up that excludes no query; storageFails
\* says the store is unavailable when the updater flushes.
addAndRemoveQueries_NoExclude(S, addQueries, removeQueries, storageFails) ==
    LET stateVersion == S.pipeline.version
        End(S3) == IF S3.err # "none" THEN S3 ELSE EndAll(S3, S3.clients)
        Flush(S1, H, pokers2, flushed) ==
            IF H.err # "none" THEN [S1 EXCEPT !.clients = H.pokers, !.err = H.err]
            ELSE IF storageFails THEN [S1 EXCEPT !.clients = pokers2, !.err = "Unavailable"]
            ELSE End(catchupClients(
                        [S1 EXCEPT !.cvr = flushed, !.store = flush(flushed, S.store),
                                   !.clients = pokers2,
                                   !.calls = Append(deleteUnreferencedRows(H.u).calls,
                                                    "flush")],
                        S.cvr, {}, TRUE, pokers2))
        Hydrated(H) ==
            Flush([S EXCEPT !.pipeline.added = H.added], H,
                  PokeAll(H.pokers, deletePatches(H.u)), deleteUnreferencedRows(H.u).cvr)
        Tracked(u1) ==
            Hydrated(HydrateQueries(addQueries,
                [u |-> u1,
                 pokers |-> [c \in Clients |->
                     addQueryDelPatches(
                         addQueryPatches(startPoke(S.clients[c], updatedVersion(u1),
                                                   S.views[c]),
                                         SeqToSet(addQueries)),
                         SeqToSet(removeQueries))],
                 added |-> S.pipeline.added \ SeqToSet(removeQueries), err |-> "none"],
                S.pipeline.snap))
    IN Tracked(trackQueries(NewQueryDrivenUpdater(S.cvr, stateVersion),
                            addQueries, removeQueries))

\* #addAndRemoveQueries(lc, cvr, addQueries, removeQueries); storageFails
\* says the store is unavailable when the updater flushes.
addAndRemoveQueries(S, addQueries, removeQueries, storageFails) ==
    LET stateVersion == S.pipeline.version
        End(S3) == IF S3.err # "none" THEN S3 ELSE EndAll(S3, S3.clients)
        Flush(S1, H, pokers2, flushed) ==
            IF H.err # "none" THEN [S1 EXCEPT !.clients = H.pokers, !.err = H.err]
            ELSE IF storageFails THEN [S1 EXCEPT !.clients = pokers2, !.err = "Unavailable"]
            ELSE End(catchupClients(
                        [S1 EXCEPT !.cvr = flushed, !.store = flush(flushed, S.store),
                                   !.clients = pokers2,
                                   !.calls = Append(deleteUnreferencedRows(H.u).calls,
                                                    "flush")],
                        S.cvr, SeqToSet(addQueries), TRUE, pokers2))
        Hydrated(H) ==
            Flush([S EXCEPT !.pipeline.added = H.added], H,
                  PokeAll(H.pokers, deletePatches(H.u)), deleteUnreferencedRows(H.u).cvr)
        Tracked(u1) ==
            Hydrated(HydrateQueries(addQueries,
                [u |-> u1,
                 pokers |-> [c \in Clients |->
                     addQueryDelPatches(
                         addQueryPatches(startPoke(S.clients[c], updatedVersion(u1),
                                                   S.views[c]),
                                         SeqToSet(addQueries)),
                         SeqToSet(removeQueries))],
                 added |-> S.pipeline.added \ SeqToSet(removeQueries), err |-> "none"],
                S.pipeline.snap))
    IN Tracked(trackQueries(NewQueryDrivenUpdater(S.cvr, stateVersion),
                            addQueries, removeQueries))

\* #syncQueryPipelineSet, with the assertion that ends it.
syncQueryPipelineSet(S, storageFails) ==
    LET hydratedQueries == S.pipeline.added
        Asserted(R) ==
            IF R.err = "none" /\ R.cvr.version[1] # R.pipeline.version
            THEN [R EXCEPT !.err = "Assert"]
            ELSE R
        Synced(addQueries, removeQueries) ==
            Asserted(IF addQueries # << >> \/ removeQueries # << >>
                     THEN addAndRemoveQueries(S, addQueries, removeQueries, storageFails)
                     ELSE catchupClients(S, S.cvr, {}, FALSE, S.clients))
    IN Synced(FilterSeq(S.cvr.order, DesiredQueries(S.cvr) \ hydratedQueries),
              FilterSeq(S.cvr.order, AllClientQueries(S.cvr) \ DesiredQueries(S.cvr)))

\* A hydration of the got queries that does not compare the CVR's state
\* version with the pipeline's.
hydrateUnchangedQueries_AnyVersion(S) ==
    [S EXCEPT !.pipeline.added =
        @ \cup {q \in GotQueries(S.cvr) : IsDesired(S.cvr.queries[q])}]

\* #hydrateUnchangedQueries: the got queries that are still desired are added
\* to the pipeline when the CVR is at the pipeline's version.
hydrateUnchangedQueries(S) ==
    IF S.cvr.version[1] # S.pipeline.version THEN S
    ELSE [S EXCEPT !.pipeline.added =
             @ \cup {q \in GotQueries(S.cvr) : IsDesired(S.cvr.queries[q])}]

\* #advancePipelines that signals the clients to commit before the flush.
advancePipelines_EndsBeforeFlush(S, replica, storageFails) ==
    LET changes == advance(S.pipeline.snap, replica.rows, S.pipeline.added)
        Flushed(S2, H) ==
            IF storageFails THEN [S2 EXCEPT !.err = "Unavailable"]
            ELSE [S2 EXCEPT !.cvr = H.u.cvr, !.store = flush(H.u.cvr, S.store),
                            !.calls = Append(@, "flush")]
        Flush(S1, pr, H) ==
            IF pr.err THEN [S1 EXCEPT !.clients = H.pokers, !.err = "InvalidVersion"]
            ELSE Flushed(EndAll([S1 EXCEPT !.calls = H.u.calls], H.pokers), H)
        Processed(u0, pr) ==
            Flush([S EXCEPT !.pipeline.version = replica.version,
                            !.pipeline.snap = replica.rows],
                  pr,
                  ReceiveBatches(pr.batches, NoQuery,
                      [u |-> u0,
                       pokers |-> [c \in Clients |->
                           startPoke(S.clients[c], updatedVersion(u0), S.views[c])],
                       added |-> S.pipeline.added, err |-> "none"]))
    IN Processed(NewQueryDrivenUpdater(S.cvr, replica.version),
                 processChanges(changes, EmptyBatch, << >>, CURSOR_PAGE_SIZE))

\* #advancePipelines with the snapshot pointer assigned before the flush has
\* succeeded.
advancePipelines_AssignsBeforeFlush(S, replica, storageFails) ==
    LET changes == advance(S.pipeline.snap, replica.rows, S.pipeline.added)
        Flush(S1, pr, H) ==
            IF pr.err THEN [S1 EXCEPT !.clients = H.pokers, !.err = "InvalidVersion"]
            ELSE IF storageFails
            THEN [S1 EXCEPT !.cvr = H.u.cvr, !.clients = H.pokers, !.err = "Unavailable"]
            ELSE EndAll([S1 EXCEPT !.cvr = H.u.cvr, !.store = flush(H.u.cvr, S.store),
                                   !.calls = Append(H.u.calls, "flush")],
                        H.pokers)
        Processed(u0, pr) ==
            Flush([S EXCEPT !.pipeline.version = replica.version,
                            !.pipeline.snap = replica.rows],
                  pr,
                  ReceiveBatches(pr.batches, NoQuery,
                      [u |-> u0,
                       pokers |-> [c \in Clients |->
                           startPoke(S.clients[c], updatedVersion(u0), S.views[c])],
                       added |-> S.pipeline.added, err |-> "none"]))
    IN Processed(NewQueryDrivenUpdater(S.cvr, replica.version),
                 processChanges(changes, EmptyBatch, << >>, CURSOR_PAGE_SIZE))

\* #advancePipelines with its updater created at a version other than the
\* one advance() returned.
advancePipelines_WrongVersion(S, replica, storageFails) ==
    LET changes == advance(S.pipeline.snap, replica.rows, S.pipeline.added)
        Flush(S1, pr, H) ==
            IF pr.err THEN [S1 EXCEPT !.clients = H.pokers, !.err = "InvalidVersion"]
            ELSE IF storageFails THEN [S1 EXCEPT !.clients = H.pokers, !.err = "Unavailable"]
            ELSE EndAll([S1 EXCEPT !.cvr = H.u.cvr, !.store = flush(H.u.cvr, S.store),
                                   !.calls = Append(H.u.calls, "flush")],
                        H.pokers)
        Processed(u0, pr) ==
            Flush([S EXCEPT !.pipeline.version = replica.version,
                            !.pipeline.snap = replica.rows],
                  pr,
                  ReceiveBatches(pr.batches, NoQuery,
                      [u |-> u0,
                       pokers |-> [c \in Clients |->
                           startPoke(S.clients[c], updatedVersion(u0), S.views[c])],
                       added |-> S.pipeline.added, err |-> "none"]))
    IN Processed(NewQueryDrivenUpdater(S.cvr, replica.version + 1),
                 processChanges(changes, EmptyBatch, << >>, CURSOR_PAGE_SIZE))

\* #advancePipelines with its pokes started at the version of the CVR
\* snapshot instead of the updater's version.
advancePipelines_PokesOldVersion(S, replica, storageFails) ==
    LET changes == advance(S.pipeline.snap, replica.rows, S.pipeline.added)
        Flush(S1, pr, H) ==
            IF pr.err THEN [S1 EXCEPT !.clients = H.pokers, !.err = "InvalidVersion"]
            ELSE IF storageFails THEN [S1 EXCEPT !.clients = H.pokers, !.err = "Unavailable"]
            ELSE EndAll([S1 EXCEPT !.cvr = H.u.cvr, !.store = flush(H.u.cvr, S.store),
                                   !.calls = Append(H.u.calls, "flush")],
                        H.pokers)
        Processed(u0, pr) ==
            Flush([S EXCEPT !.pipeline.version = replica.version,
                            !.pipeline.snap = replica.rows],
                  pr,
                  ReceiveBatches(pr.batches, NoQuery,
                      [u |-> u0,
                       pokers |-> [c \in Clients |->
                           startPoke(S.clients[c], S.cvr.version, S.views[c])],
                       added |-> S.pipeline.added, err |-> "none"]))
    IN Processed(NewQueryDrivenUpdater(S.cvr, replica.version),
                 processChanges(changes, EmptyBatch, << >>, CURSOR_PAGE_SIZE))

\* #advancePipelines in which the error of a poker's addPatch reaches the
\* caller: the advancement throws before the updater is flushed.
advancePipelines_PokerThrows(S, replica, storageFails) ==
    LET changes == advance(S.pipeline.snap, replica.rows, S.pipeline.added)
        Flush(S1, pr, H) ==
            IF pr.err THEN [S1 EXCEPT !.clients = H.pokers, !.err = "InvalidVersion"]
            ELSE IF \E c \in Clients : IsOpen(S.clients[c]) /\ ~IsOpen(H.pokers[c])
            THEN [S1 EXCEPT !.clients = H.pokers, !.err = "Unsafe"]
            ELSE IF storageFails THEN [S1 EXCEPT !.clients = H.pokers, !.err = "Unavailable"]
            ELSE EndAll([S1 EXCEPT !.cvr = H.u.cvr, !.store = flush(H.u.cvr, S.store),
                                   !.calls = Append(H.u.calls, "flush")],
                        H.pokers)
        Processed(u0, pr) ==
            Flush([S EXCEPT !.pipeline.version = replica.version,
                            !.pipeline.snap = replica.rows],
                  pr,
                  ReceiveBatches(pr.batches, NoQuery,
                      [u |-> u0,
                       pokers |-> [c \in Clients |->
                           startPoke(S.clients[c], updatedVersion(u0), S.views[c])],
                       added |-> S.pipeline.added, err |-> "none"]))
    IN Processed(NewQueryDrivenUpdater(S.cvr, replica.version),
                 processChanges(changes, EmptyBatch, << >>, CURSOR_PAGE_SIZE))

\* #advancePipelines; `replica` is what the pipeline's advance() reads.
advancePipelines(S, replica, storageFails) ==
    LET changes == advance(S.pipeline.snap, replica.rows, S.pipeline.added)
        Flush(S1, pr, H) ==
            IF pr.err THEN [S1 EXCEPT !.clients = H.pokers, !.err = "InvalidVersion"]
            ELSE IF storageFails THEN [S1 EXCEPT !.clients = H.pokers, !.err = "Unavailable"]
            ELSE EndAll([S1 EXCEPT !.cvr = H.u.cvr, !.store = flush(H.u.cvr, S.store),
                                   !.calls = Append(H.u.calls, "flush")],
                        H.pokers)
        Processed(u0, pr) ==
            Flush([S EXCEPT !.pipeline.version = replica.version,
                            !.pipeline.snap = replica.rows],
                  pr,
                  ReceiveBatches(pr.batches, NoQuery,
                      [u |-> u0,
                       pokers |-> [c \in Clients |->
                           startPoke(S.clients[c], updatedVersion(u0), S.views[c])],
                       added |-> S.pipeline.added, err |-> "none"]))
    IN Processed(NewQueryDrivenUpdater(S.cvr, replica.version),
                 processChanges(changes, EmptyBatch, << >>, CURSOR_PAGE_SIZE))

\* ------------------------------------------------------------------- state
VARIABLES
    replica,        \* the local replica: its state version and its rows
    signals,        \* replica-version-ready signals pending in #versionChanges
    active,         \* #versionChanges.active
    pc,             \* run(): "start", "running" (in the for-await loop), "stopped"
    lock,           \* #lock: free, or held by a client request that is suspended;
                    \* `waiting` are the withLock calls that wait, in call order
    cvr,            \* #cvr
    store,          \* the durable CVR of the group
    pipeline,       \* #pipelines
    clients,        \* #clients
    pendingDelete,  \* #deleteClient calls waiting for the lock
    idleToken,      \* #idleToken: whether it is set, the time left on its timer,
                    \* the time left of the keepaliveMs since the last
                    \* keepalive() that returned true, and whether its
                    \* timeout has cancelled #versionChanges
    views,          \* the rows each client has committed
    cookies,        \* the cookie each client has committed
    requests,       \* client requests made so far
    faults,         \* storage errors and kills injected so far
    last            \* the outcome of the operation that completed last

\* What the operations of the view syncer leave alone: the state of the
\* parts that are exercised on their own.
VARIABLES
    registered,     \* a handler has been set in #clients since the service started
    calls,          \* the calls on the updater and the pokers (received,
                    \* deleteUnreferencedRows, flush, end) that the last
                    \* operation with an updater or a catch-up made, in order
    feed,           \* a change stream handed to #processChanges with a page size,
                    \* and what #processChanges made of it
    dagStore,       \* the dag store of the client map: the 'clients' head and
                    \* the chunks put, as pairs of hash and client map
    tabs,           \* the callers of updateClients: where each is in the
                    \* function and what it holds
    clientCalls,    \* updateClients and setClient calls made so far
    rooms,          \* the room records in the storage, by roomID
    roomLock,       \* roomLock: the call that holds it for writing, if any
    roomCalls,      \* the createRoom, closeRoom and deleteRoom calls in
                    \* progress: where each is and what it holds
    roomCount       \* room calls made and object IDs handed out so far

feedVars == << feed >>
clientMapVars == << dagStore, tabs, clientCalls >>
roomVars == << rooms, roomLock, roomCalls, roomCount >>
elsewhere == << feedVars, clientMapVars, roomVars >>
untraced == << calls, registered, elsewhere >>

vars == << replica, signals, active, pc, lock, cvr, store, pipeline, clients,
           pendingDelete, idleToken, views, cookies, requests, faults, last, calls,
           registered, feed, dagStore, tabs, clientCalls,
           rooms, roomLock, roomCalls, roomCount >>

\* ------------------------------------------------ the client map (clients)
\* A client map holds a record for each client that is in it; a record is
\* modelled by one number, 0 for a new client and 1 once it has mutated.
ClientIDs == {"c1", "c2"}
Tabs == {"t1", "t2"}
NoClient == -1
EmptyClientMap == [id \in ClientIDs |-> NoClient]

\* The undefined head.
NoHash == 0

\* asyncHashOfClients: the hash of the chunk data of a client map, a number
\* that names its contents.
asyncHashOfClients(m) == 1 + (m["c1"] + 1) + 3 * (m["c2"] + 1)

\* The hashes of a chunk that dagWrite.createChunk makes for a client map:
\* the hash of its data, or one the store makes up that no chunk has yet.
ChunkHashes(m, made) == {asyncHashOfClients(m), 3 * 3 + 1 + made}

\* getClientsAtHash: the empty map for an undefined head, else the data of
\* the chunk.
getClientsAtHash(d, hash) ==
    IF hash = NoHash THEN EmptyClientMap
    ELSE (CHOOSE chunk \in d.chunks : chunk[1] = hash)[2]

EmptyDag == [head |-> NoHash, chunks |-> {}]

\* The ClientsUpdate functions handed to updateClients: one that sets a new
\* client, one that marks a client as mutated and one that removes a client;
\* the last two return noUpdates when they have nothing to change.
ClientsUpdates ==
    {[op |-> op, id |-> id] : op \in {"set", "mutate", "remove"}, id \in ClientIDs}
NoClientsUpdate == [op |-> "none", id |-> "c1"]

update(u, m) ==
    IF u.op = "set" THEN [noUpdates |-> FALSE, clients |-> [m EXCEPT ![u.id] = 0]]
    ELSE IF m[u.id] = NoClient THEN [noUpdates |-> TRUE, clients |-> m]
    ELSE IF u.op = "mutate"
    THEN IF m[u.id] = 1 THEN [noUpdates |-> TRUE, clients |-> m]
         ELSE [noUpdates |-> FALSE, clients |-> [m EXCEPT ![u.id] = 1]]
    ELSE [noUpdates |-> FALSE, clients |-> [m EXCEPT ![u.id] = NoClient]]

\* A caller of updateClients: `at` is where it is ("idle", "update" before
\* the call of the update function, "write" before the write transaction,
\* "returned"), `clients` and `clientsHash` the map and the head it read,
\* `updated` and `updatedHash` what the update function made of it, `result`
\* the map returned and `conflicts` the write transactions that found another
\* head.
IdleTab ==
    [at |-> "idle", update |-> NoClientsUpdate, clients |-> EmptyClientMap,
     clientsHash |-> NoHash, updated |-> EmptyClientMap, updatedHash |-> NoHash,
     result |-> EmptyClientMap, conflicts |-> 0]

\* updateClients: the head and the map at the head, read in one read
\* transaction.
withRead(d, u) ==
    [IdleTab EXCEPT !.at = "update", !.update = u,
                    !.clients = getClientsAtHash(d, d.head), !.clientsHash = d.head]

\* updateClientsInternal up to the write transaction: the update function
\* is run on the map read.
runUpdate(tab) ==
    LET updateResults == update(tab.update, tab.clients) IN
    IF updateResults.noUpdates
    THEN [tab EXCEPT !.at = "returned", !.result = tab.clients]
    ELSE [tab EXCEPT !.at = "write", !.updated = updateResults.clients,
                     !.updatedHash = asyncHashOfClients(updateResults.clients)]

\* A write transaction that sets the head without looking at it.
withWrite_NoCompare(d, tab) ==
    [dag |-> [head |-> tab.updatedHash,
              chunks |-> d.chunks \cup {<< tab.updatedHash, tab.updated >>}],
     tab |-> [tab EXCEPT !.at = "returned", !.result = tab.updated]]

\* The write transaction of updateClientsInternal: with another head than
\* the one read nothing is written and the update is tried again on the map
\* at that head; else the chunk is put, the head set and the write committed.
withWrite(d, tab) ==
    IF d.head # tab.clientsHash
    THEN [dag |-> d,
          tab |-> [tab EXCEPT !.at = "update",
                              !.clients = getClientsAtHash(d, d.head),
                              !.clientsHash = d.head,
                              !.conflicts = @ + 1]]
    ELSE [dag |-> [head |-> tab.updatedHash,
                   chunks |-> d.chunks \cup {<< tab.updatedHash, tab.updated >>}],
          tab |-> [tab EXCEPT !.at = "returned", !.result = tab.updated]]

\* setClient(clientID, client, dagWrite) in a write transaction that is
\* committed; `hash` is the hash of the chunk created.
setClient(d, id, client, hash) ==
    LET newClients == [getClientsAtHash(d, d.head) EXCEPT ![id] = client] IN
    [head |-> hash, chunks |-> d.chunks \cup {<< hash, newClients >>}]

InitClientMap ==
    /\ dagStore = EmptyDag
    /\ tabs = [t \in Tabs |-> IdleTab]
    /\ clientCalls = [updates |-> 0, sets |-> 0]

\* ------------------------------------------------------------------ rooms
\* A roomID is a string, here a sequence of characters; a request may come
\* without one.
RoomIDs == {<< "r", "1" >>, << "r", " " >>}
NoRoomID == << "undefined" >>
Callers == {"h1", "h2"}

\* roomID.match(/^[A-Za-z0-9_-]+$/)
IsWordChar(ch) == ch \in {"r", "1", "_", "-"}
IsValidRoomID(roomID) == Len(roomID) > 0 /\ \A i \in 1..Len(roomID) : IsWordChar(roomID[i])

\* RoomStatus
Open == "open"
Closed == "closed"
Deleted == "deleted"

\* No record under the room's key.
NoRoom == [status |-> "none", objectIDString |-> 0, requireEUStorage |-> FALSE]

\* The responses of the three calls.
Success == "success"
ErrorResponses ==
    {"Invalid roomID", "room already exists", "Missing roomID", "no such room",
     "room is not open", "room must first be closed", "room record disappeared",
     "error response of the room"}

\* A call: `at` is where it is, `response` what it returned, `roomRecord`
\* the record it read.
IdleCall == [at |-> "idle", op |-> "none", roomID |-> NoRoomID, requireEUStorage |-> FALSE,
             roomRecord |-> NoRoom, response |-> "none"]

Respond(call, response) == [call EXCEPT !.at = "returned", !.response = response]

\* roomLock, an RWLock: free, or held by one writer.
NoHolder == "none"

\* A lock that admits a writer while another holds it.
CanLock_Always(holder) == TRUE

\* withWrite and withRead go ahead when no writer holds the lock.
CanLock(holder) == holder = NoHolder

InitRooms ==
    /\ rooms = [id \in RoomIDs |-> NoRoom]
    /\ roomLock = NoHolder
    /\ roomCalls = [h \in Callers |-> IdleCall]
    /\ roomCount = [calls |-> 0, objectIDs |-> 0]

\* No change stream.
NoFeed == [stream |-> << >>, pageSize |-> 0, out |-> << >>, done |-> FALSE]

\* No idle timer.
NoIdleToken == [armed |-> FALSE, remaining |-> 0, alive |-> 0, fired |-> FALSE]

\* #startIdleTimer that sets no timeout.
startIdleTimer_NoTimeout(token) == token

\* #startIdleTimer: a new token, whose timeout is keepaliveMs from now.
startIdleTimer(token) ==
    [token EXCEPT !.armed = TRUE, !.remaining = KeepaliveTicks, !.fired = FALSE]

FreeLock == [held |-> FALSE, clientID |-> "", bad |-> FALSE, op |-> "", waiting |-> << >>]

\* A call of #lock.withLock: the operation that made it and its arguments.
RunTicket == [op |-> "run", clientID |-> "", wsID |-> 0, patch |-> << >>]
DeleteTicket(c, wsID) == [op |-> "deleteClient", clientID |-> c, wsID |-> wsID, patch |-> << >>]
RequestTicket(op, c, wsID, patch) == [op |-> op, clientID |-> c, wsID |-> wsID, patch |-> patch]

\* A lock that any caller takes once it is free, whoever else waits.
HasTurn_Barging(t) == ~lock.held

\* withLock runs the call `t` now: the lock is free and either nobody waits
\* (the call is made and granted at once) or `t` is the call that has waited
\* longest.
HasTurn(t) ==
    /\ ~lock.held
    /\ IF lock.waiting = << >> THEN TRUE ELSE Head(lock.waiting) = t

IsWaiting(t) == \E i \in 1..Len(lock.waiting) : lock.waiting[i] = t

\* The calls that still wait once the lock is granted.
Granted == IF lock.waiting = << >> THEN << >> ELSE Tail(lock.waiting)
NoOutcome == [op |-> "none", clientID |-> "", ok |-> TRUE, err |-> "none", bad |-> FALSE]

\* The desiredQueriesPatch bodies a client sends.
Patches ==
    { << >>,
      << Put("q1") >>, << Put("q2") >>,
      << Put("q1"), Put(BadQuery) >>,
      << Put("q2"), Del("q1") >>,
      << Clear >> }

HasBadQuery(patch) == \E i \in 1..Len(patch) : patch[i].op = "put" /\ patch[i].hash = BadQuery

InitService ==
    /\ replica = [version |-> 1,
                  rows |-> [r \in Rows |-> IF r = "r1" THEN [val |-> 1, version |-> 1] ELSE NoRow]]
    /\ signals = 1
    /\ active = TRUE
    /\ pc = "start"
    /\ lock = FreeLock
    /\ cvr = NoCVR
    /\ store = EmptyCVR
    /\ pipeline = [initialized |-> FALSE, destroyed |-> FALSE, version |-> 0,
                   snap |-> [r \in Rows |-> NoRow], added |-> {}]
    /\ clients = [c \in Clients |-> NoHandler]
    /\ pendingDelete = {}
    /\ idleToken = NoIdleToken
    /\ views = [c \in Clients |-> EmptyView]
    /\ cookies = [c \in Clients |-> NullVersion]
    /\ requests = 0
    /\ faults = 0
    /\ last = NoOutcome
    /\ calls = << >>
    /\ registered = FALSE

\* The state after construction.
Init ==
    /\ InitService
    /\ feed = NoFeed
    /\ InitClientMap
    /\ InitRooms

\* The operation state built from the variables.
Service == [cvr |-> cvr, store |-> store, pipeline |-> pipeline, clients |-> clients,
            views |-> views, cookies |-> cookies, err |-> "none", calls |-> << >>]

\* The handlers whose downstream an operation ended: their cleanup calls
\* #deleteClient, which waits for the lock.
Ended(before, after) ==
    {<< c, before[c].wsID >> : c \in {d \in Clients : IsOpen(before[d]) /\ ~IsOpen(after[d])}}

\* The storage errors the environment may inject into one flush.
StorageOutcomes == IF faults < MaxFaults THEN {FALSE, TRUE} ELSE {FALSE}

\* ------------------------------------------------------------- environment
\* The replicator commits a transaction that inserts, updates or deletes one
\* row, and signals the new version. The row written may lack a _0_version.
ReplicaWrites(r, val, valid) ==
    /\ replica.version < MaxStateVersion
    /\ ~lock.held
    /\ val # replica.rows[r].val
    /\ val = Absent => valid
    /\ replica' = [version |-> replica.version + 1,
                   rows |-> [replica.rows EXCEPT ![r] =
                       IF val = Absent THEN NoRow
                       ELSE [val |-> val,
                             version |-> IF valid THEN replica.version + 1 ELSE 0]]]
    /\ signals' = IF active THEN 1 ELSE signals
    /\ UNCHANGED << active, pc, lock, cvr, store, pipeline, clients, pendingDelete,
                    idleToken, views, cookies, requests, faults, last >>
    /\ UNCHANGED untraced

ReplicaAdvance ==
    \E r \in Rows, val \in Vals \cup {Absent}, valid \in BOOLEAN : ReplicaWrites(r, val, valid)

\* A client closes its connection: the downstream is cancelled.
ClientCloses(c) ==
    /\ IsOpen(clients[c])
    /\ clients' = [clients EXCEPT ![c] = closeHandler(@)]
    /\ pendingDelete' = pendingDelete \cup {<< c, clients[c].wsID >>}
    /\ UNCHANGED << replica, signals, active, pc, lock, cvr, store, pipeline,
                    idleToken, views, cookies, requests, faults, last >>
    /\ UNCHANGED untraced

\* #cleanup(err): the pipeline is destroyed and every handler failed (with an
\* error) or closed (without).
Cleanup(handlers, failed) ==
    [c \in Clients |-> IF failed THEN failHandler(handlers[c]) ELSE closeHandler(handlers[c])]

\* ------------------------------------------------------------------ run()
\* run(): the CVR is loaded under the lock. When the load throws, run()
\* goes to its catch clause, #cleanup(e), without having entered the
\* for-await loop.
Load ==
    /\ pc = "start"
    /\ ~lock.held
    /\ \E storageFails \in StorageOutcomes :
          IF storageFails
          THEN /\ pc' = "stopped"
               /\ faults' = faults + 1
               /\ pipeline' = [pipeline EXCEPT !.destroyed = TRUE]
               /\ clients' = Cleanup(clients, TRUE)
               /\ pendingDelete' = pendingDelete \cup Ended(clients, Cleanup(clients, TRUE))
               /\ last' = [op |-> "load", clientID |-> "", ok |-> FALSE,
                           err |-> "Unavailable", bad |-> FALSE]
               /\ UNCHANGED cvr
          ELSE /\ cvr' = store
               /\ pc' = "running"
               /\ UNCHANGED << pipeline, clients, pendingDelete, faults, last >>
    /\ UNCHANGED << replica, signals, active, lock, store, idleToken, views, cookies,
                    requests >>
    /\ UNCHANGED untraced

\* One iteration of the for-await loop of run(), under the lock. An
\* iteration that throws leaves the loop: the iterator of #versionChanges is
\* returned, which cancels the subscription, and run() goes to #cleanup(e).
RunIteration ==
    /\ pc = "running"
    /\ lock.waiting = << >> => (active /\ signals > 0)
    /\ HasTurn(RunTicket)
    /\ lock' = [lock EXCEPT !.waiting = Granted]
    /\ \E storageFails \in StorageOutcomes :
       \E R \in {IF ~pipeline.initialized
                 THEN syncQueryPipelineSet(hydrateUnchangedQueries(
                          [Service EXCEPT !.pipeline.initialized = TRUE,
                                          !.pipeline.version = replica.version,
                                          !.pipeline.snap = replica.rows]), storageFails)
                 ELSE advancePipelines(Service, replica, storageFails)} :
         LET after == IF R.err = "none" THEN R.clients ELSE Cleanup(R.clients, TRUE)
         IN /\ storageFails => R.err = "Unavailable"
            /\ faults' = IF storageFails THEN faults + 1 ELSE faults
            /\ cvr' = R.cvr
            /\ store' = R.store
            /\ pipeline' = IF R.err = "none" THEN R.pipeline
                           ELSE [R.pipeline EXCEPT !.destroyed = TRUE]
            /\ clients' = after
            /\ views' = R.views
            /\ cookies' = R.cookies
            /\ pendingDelete' = pendingDelete \cup Ended(clients, after)
            /\ pc' = IF R.err = "none" THEN "running" ELSE "stopped"
            /\ active' = IF R.err = "none" THEN active ELSE FALSE
            /\ calls' = R.calls
            /\ UNCHANGED registered
            /\ last' = [op |-> "signal", clientID |-> "", ok |-> R.err = "none",
                        err |-> R.err, bad |-> FALSE]
    /\ signals' = 0
    /\ UNCHANGED << replica, idleToken, requests >>
    /\ UNCHANGED elsewhere

\* A loop that is left as soon as #versionChanges is cancelled, whether or
\* not an iteration waits for the lock.
LoopExit_Aborts ==
    /\ pc = "running"
    /\ ~active
    /\ pc' = "stopped"
    /\ pipeline' = [pipeline EXCEPT !.destroyed = TRUE]
    /\ clients' = Cleanup(clients, FALSE)
    /\ pendingDelete' = pendingDelete \cup Ended(clients, Cleanup(clients, FALSE))
    /\ UNCHANGED << replica, signals, active, lock, cvr, store, idleToken,
                    views, cookies, requests, faults, last >>
    /\ UNCHANGED untraced

\* The for-await loop ends when #versionChanges is cancelled: #cleanup().
LoopExit ==
    /\ pc = "running"
    /\ ~active
    /\ ~IsWaiting(RunTicket)
    /\ pc' = "stopped"
    /\ pipeline' = [pipeline EXCEPT !.destroyed = TRUE]
    /\ clients' = Cleanup(clients, FALSE)
    /\ pendingDelete' = pendingDelete \cup Ended(clients, Cleanup(clients, FALSE))
    /\ UNCHANGED << replica, signals, active, lock, cvr, store, idleToken,
                    views, cookies, requests, faults, last >>
    /\ UNCHANGED untraced

\* stop(): #versionChanges.cancel().
Stop ==
    /\ active
    /\ active' = FALSE
    /\ signals' = 0
    /\ UNCHANGED << replica, pc, lock, cvr, store, pipeline, clients, pendingDelete,
                    idleToken, views, cookies, requests, faults, last >>
    /\ UNCHANGED untraced

\* The timeout of #startIdleTimer fires while its token is the current one.
IdleTimeout ==
    /\ idleToken.armed
    /\ idleToken.remaining = 0
    /\ active
    /\ active' = FALSE
    /\ signals' = 0
    /\ idleToken' = [idleToken EXCEPT !.fired = TRUE]
    /\ UNCHANGED << replica, pc, lock, cvr, store, pipeline, clients, pendingDelete,
                    views, cookies, requests, faults, last >>
    /\ UNCHANGED untraced

\* Time passes by one tick, unless the timeout of the idle timer is due.
Tick ==
    /\ ~(idleToken.armed /\ idleToken.remaining = 0 /\ active)
    /\ (idleToken.armed /\ idleToken.remaining > 0) \/ idleToken.alive > 0
    /\ idleToken' = [idleToken EXCEPT
                        !.remaining = IF @ > 0 THEN @ - 1 ELSE 0,
                        !.alive = IF @ > 0 THEN @ - 1 ELSE 0]
    /\ UNCHANGED << replica, signals, active, pc, lock, cvr, store, pipeline, clients,
                    pendingDelete, views, cookies, requests, faults, last >>
    /\ UNCHANGED untraced

\* keepalive() that returns true while active and leaves the idle timer as
\* it is.
KeepAlive_NoRestart ==
    /\ last' = [op |-> "keepalive", clientID |-> "", ok |-> active,
                err |-> "none", bad |-> FALSE]
    /\ idleToken' = IF active THEN [idleToken EXCEPT !.alive = KeepaliveTicks]
                    ELSE idleToken
    /\ UNCHANGED << replica, signals, active, pc, lock, cvr, store, pipeline, clients,
                    pendingDelete, views, cookies, requests, faults >>
    /\ UNCHANGED untraced

\* keepalive(): false when #versionChanges is not active; else the idle
\* timer, if there is one, is started again, and true.
KeepAlive ==
    /\ IF ~active
       THEN /\ last' = [op |-> "keepalive", clientID |-> "", ok |-> FALSE,
                        err |-> "none", bad |-> FALSE]
            /\ UNCHANGED idleToken
       ELSE /\ last' = [op |-> "keepalive", clientID |-> "", ok |-> TRUE,
                        err |-> "none", bad |-> FALSE]
            /\ idleToken' = [(IF idleToken.armed THEN startIdleTimer(idleToken)
                              ELSE idleToken) EXCEPT !.alive = KeepaliveTicks]
    /\ UNCHANGED << replica, signals, active, pc, lock, cvr, store, pipeline, clients,
                    pendingDelete, views, cookies, requests, faults >>
    /\ UNCHANGED untraced

\* #deleteClient that removes whatever handler is registered for the client.
DeleteClient_AnyHandler(c, wsID) ==
    /\ << c, wsID >> \in pendingDelete
    /\ HasTurn(DeleteTicket(c, wsID))
    /\ lock' = [lock EXCEPT !.waiting = Granted]
    /\ pc # "start"
    /\ pendingDelete' = pendingDelete \ {<< c, wsID >>}
    /\ LET same == clients[c].present
           left == [clients EXCEPT ![c] = IF same THEN NoHandler ELSE @]
       IN /\ clients' = left
          /\ idleToken' = IF same /\ \A d \in Clients : ~left[d].present
                          THEN startIdleTimer(idleToken) ELSE idleToken
    /\ UNCHANGED << replica, signals, active, pc, cvr, store, pipeline,
                    views, cookies, requests, faults, last >>
    /\ UNCHANGED untraced

\* #deleteClient(clientID, client), once it has the lock.
DeleteClient(c, wsID) ==
    /\ << c, wsID >> \in pendingDelete
    /\ HasTurn(DeleteTicket(c, wsID))
    /\ lock' = [lock EXCEPT !.waiting = Granted]
    /\ pc # "start"
    /\ pendingDelete' = pendingDelete \ {<< c, wsID >>}
    /\ LET same == clients[c].present /\ clients[c].wsID = wsID
           left == [clients EXCEPT ![c] = IF same THEN NoHandler ELSE @]
       IN /\ clients' = left
          /\ idleToken' = IF same /\ \A d \in Clients : ~left[d].present
                          THEN startIdleTimer(idleToken) ELSE idleToken
    /\ UNCHANGED << replica, signals, active, pc, cvr, store, pipeline,
                    views, cookies, requests, faults, last >>
    /\ UNCHANGED untraced

\* ---------------------------------------------------------- client requests
\* The part of #runInLockForClient after the lock is released without an
\* error: the idle timeout is cleared and cancelled.
Returned(op, c, bad) ==
    /\ idleToken' = [idleToken EXCEPT !.armed = FALSE, !.remaining = 0]
    /\ last' = [op |-> op, clientID |-> c, ok |-> TRUE, err |-> "none", bad |-> bad]

\* #patchQueries up to its call of #syncQueryPipelineSet: the patch is applied
\* by a config-driven updater and flushed. The request then either returns
\* (pipeline not initialized) or goes on, holding the lock, to ClientSync.
PatchQueries(op, c, patch) ==
    /\ IF patch # << >>
       THEN /\ cvr' = ConfigFlush(cvr, c, patch)
            /\ store' = flush(ConfigFlush(cvr, c, patch), store)
       ELSE UNCHANGED << cvr, store >>
    /\ IF pipeline.initialized
       THEN /\ lock' = [held |-> TRUE, clientID |-> c, bad |-> HasBadQuery(patch),
                         op |-> op, waiting |-> Granted]
            /\ UNCHANGED << idleToken, last >>
       ELSE /\ Returned(op, c, HasBadQuery(patch))
            /\ lock' = [lock EXCEPT !.waiting = Granted]

\* The wsID of a new connection: one that no connection of the client still
\* known to the service has.
InUse(c, w) ==
    \/ w = clients[c].wsID
    \/ << c, w >> \in pendingDelete
    \/ \E i \in 1..Len(lock.waiting) :
          lock.waiting[i].clientID = c /\ lock.waiting[i].wsID = w

NewWsID(c) ==
    CHOOSE w \in 1..(MaxRequests + 1) :
        /\ ~InUse(c, w)
        /\ \A x \in 1..(w - 1) : InUse(c, x)

\* A request that is granted the lock at once is made now and counted; one
\* that has waited was counted when it was made.
Called ==
    IF lock.waiting = << >>
    THEN /\ requests < MaxRequests
         /\ requests' = requests + 1
    ELSE UNCHANGED requests

\* initConnection(ctx, msg): the handler of the client's earlier connection is
\* closed and the new one registered; the base cookie is the cookie the client
\* has committed.
InitConnection(c, patch) ==
    /\ pc # "start"
    /\ \E wsID \in {IF lock.waiting = << >> THEN NewWsID(c) ELSE Head(lock.waiting).wsID} :
          /\ HasTurn(RequestTicket("initConnection", c, wsID, patch))
          /\ clients' = [clients EXCEPT ![c] = NewClientHandler(wsID, cookies[c], views[c])]
    /\ requests = 0 => c = FirstClient
    /\ Called
    /\ pendingDelete' = pendingDelete \cup
          (IF IsOpen(clients[c]) THEN {<< c, clients[c].wsID >>} ELSE {})
    /\ PatchQueries("initConnection", c, patch)
    /\ registered' = TRUE
    /\ UNCHANGED << replica, signals, active, pc, pipeline, views, cookies, faults >>
    /\ UNCHANGED << calls, elsewhere >>

\* changeDesiredQueries(ctx, msg) on the connection that is registered.
ChangeDesiredQueries(c, patch) ==
    /\ pc # "start"
    /\ clients[c].present
    /\ HasTurn(RequestTicket("changeDesiredQueries", c, clients[c].wsID, patch))
    /\ Called
    /\ PatchQueries("changeDesiredQueries", c, patch)
    /\ UNCHANGED << replica, signals, active, pc, pipeline, clients, pendingDelete,
                    views, cookies, faults >>
    /\ UNCHANGED untraced

\* A stale message that is logged as dropped and then processed all the
\* same: its patch is applied to the CVR and flushed.
DropStaleMessage_NoReturn(c) ==
    /\ pc # "start"
    /\ \E t \in {IF lock.waiting = << >>
                  THEN RequestTicket("changeDesiredQueries", c, StaleWsID, << Put("q1") >>)
                  ELSE Head(lock.waiting)} :
          /\ t.op = "changeDesiredQueries"
          /\ t.clientID = c
          /\ HasTurn(t)
          /\ ~(clients[c].present /\ clients[c].wsID = t.wsID)
          /\ cvr' = ConfigFlush(cvr, c, << Put("q1") >>)
          /\ store' = flush(ConfigFlush(cvr, c, << Put("q1") >>), store)
    /\ Called
    /\ Returned("dropped", c, FALSE)
    /\ lock' = [lock EXCEPT !.waiting = Granted]
    /\ UNCHANGED << replica, signals, active, pc, pipeline, clients,
                    pendingDelete, views, cookies, faults >>
    /\ UNCHANGED untraced

\* changeDesiredQueries(ctx, msg) with the wsID of a connection that is not
\* the registered one: the message is dropped.
DropStaleMessage(c) ==
    /\ pc # "start"
    /\ \E t \in {IF lock.waiting = << >>
                  THEN RequestTicket("changeDesiredQueries", c, StaleWsID, << >>)
                  ELSE Head(lock.waiting)} :
          /\ t.op = "changeDesiredQueries"
          /\ t.clientID = c
          /\ HasTurn(t)
          /\ ~(clients[c].present /\ clients[c].wsID = t.wsID)
    /\ Called
    /\ Returned("dropped", c, FALSE)
    /\ lock' = [lock EXCEPT !.waiting = Granted]
    /\ UNCHANGED << replica, signals, active, pc, cvr, store, pipeline, clients,
                    pendingDelete, views, cookies, faults >>
    /\ UNCHANGED untraced

\* The rest of a client request: #syncQueryPipelineSet under the lock, then
\* the catch clause of #runInLockForClient (client.fail(e), rethrow) or the
\* normal return.
ClientSync ==
    /\ lock.held
    /\ \E storageFails \in StorageOutcomes :
       \E R \in {syncQueryPipelineSet(Service, storageFails)} :
         LET c == lock.clientID
             after == IF R.err = "none" THEN R.clients
                      ELSE [R.clients EXCEPT ![c] = failHandler(@)]
         IN /\ storageFails => R.err = "Unavailable"
            /\ faults' = IF storageFails THEN faults + 1 ELSE faults
            /\ cvr' = R.cvr
            /\ store' = R.store
            /\ pipeline' = R.pipeline
            /\ clients' = after
            /\ views' = R.views
            /\ cookies' = R.cookies
            /\ pendingDelete' = pendingDelete \cup Ended(clients, after)
            /\ calls' = R.calls
            /\ UNCHANGED registered
            /\ IF R.err = "none"
               THEN Returned(lock.op, c, lock.bad)
               ELSE /\ last' = [op |-> lock.op, clientID |-> c, ok |-> FALSE,
                                err |-> R.err, bad |-> lock.bad]
                    /\ UNCHANGED idleToken
    /\ lock' = [FreeLock EXCEPT !.waiting = lock.waiting]
    /\ UNCHANGED << replica, signals, active, pc, requests >>
    /\ UNCHANGED elsewhere

\* The process is killed and the service started again: what is in memory is
\* lost, the durable CVR, the replica and what the clients hold are kept. The
\* new subscription to the replicator starts with a signal.
Crash ==
    /\ faults < MaxFaults
    /\ faults' = faults + 1
    /\ pc' = "start"
    /\ signals' = 1
    /\ active' = TRUE
    /\ lock' = FreeLock
    /\ cvr' = NoCVR
    /\ pipeline' = [initialized |-> FALSE, destroyed |-> FALSE, version |-> 0,
                    snap |-> [r \in Rows |-> NoRow], added |-> {}]
    /\ clients' = [c \in Clients |-> NoHandler]
    /\ pendingDelete' = {}
    /\ idleToken' = NoIdleToken
    /\ last' = [op |-> "crash", clientID |-> "", ok |-> TRUE, err |-> "none", bad |-> FALSE]
    /\ registered' = FALSE
    /\ UNCHANGED << replica, store, views, cookies, requests >>
    /\ UNCHANGED << calls, elsewhere >>

\* A client request, on any connection.
ClientRequest ==
    \/ \E c \in Clients : DropStaleMessage(c)
    \/ \E c \in Clients, patch \in Patches : InitConnection(c, patch)
    \/ \E c \in Clients, patch \in Patches : ChangeDesiredQueries(c, patch)

\* The service while run() is in its loop: requests reach it only then.
Next ==
    \/ ReplicaAdvance
    \/ Load
    \/ RunIteration
    \/ ClientSync
    \/ \E c \in Clients, wsID \in 1..MaxRequests : DeleteClient(c, wsID)
    \/ (pc = "running" /\ ClientRequest)

Spec == Init /\ [][Next]_vars

\* The same with the ways the service ends: stop(), the idle timeout, clients
\* that close their connection.
NextLifecycle ==
    \/ Next
    \/ ClientRequest
    \/ LoopExit
    \/ Stop
    \/ IdleTimeout
    \/ \E c \in Clients : ClientCloses(c)

SpecLifecycle == Init /\ [][NextLifecycle]_vars


\* The desiredQueriesPatch bodies of the requests that wait for the lock.
WaitingPatches == { << >>, << Put("q1") >> }

\* The withLock calls that can wait.
Tickets ==
    {RunTicket}
    \cup {DeleteTicket(c, w) : c \in Clients, w \in 1..MaxRequests}
    \cup {RequestTicket(op, c, w, patch) :
             op \in {"initConnection", "changeDesiredQueries"}, c \in Clients,
             w \in 1..MaxRequests, patch \in WaitingPatches}

\* An operation calls #lock.withLock while the lock is held or others wait
\* for it: the call waits behind them. The run loop calls it for a signal it
\* has received, #deleteClient when the downstream of its handler has ended,
\* #runInLockForClient for a request on a new connection (initConnection) or
\* on the registered one.
CallWithLock(t) ==
    /\ ~(~lock.held /\ lock.waiting = << >>)
    /\ Len(lock.waiting) < MaxWaiting
    /\ ~IsWaiting(t)
    /\ pc = "running"
    /\ IF t.op = "run" THEN active /\ signals > 0 /\ UNCHANGED requests
       ELSE IF t.op = "deleteClient"
       THEN << t.clientID, t.wsID >> \in pendingDelete /\ UNCHANGED requests
       ELSE /\ requests < MaxRequests
            /\ requests' = requests + 1
            /\ IF t.op = "initConnection" THEN t.wsID = NewWsID(t.clientID)
               ELSE clients[t.clientID].present /\ t.wsID = clients[t.clientID].wsID
    /\ lock' = [lock EXCEPT !.waiting = Append(@, t)]
    /\ UNCHANGED << replica, signals, active, pc, cvr, store, pipeline, clients,
                    pendingDelete, idleToken, views, cookies, faults, last >>
    /\ UNCHANGED untraced

\* The service with operations that wait for the lock.
NextLock ==
    \/ Next
    \/ \E t \in Tickets : CallWithLock(t)

SpecLock == Init /\ [][NextLock]_vars

\* The service with a replica in which a row gets contents that are not safe
\* to send.
NextUnsafe ==
    \/ ReplicaWrites("r2", Unsafe, TRUE)
    \/ Load
    \/ RunIteration
    \/ ClientSync
    \/ \E c \in Clients, wsID \in 1..MaxRequests : DeleteClient(c, wsID)
    \/ \E c \in Clients, patch \in WaitingPatches : pc = "running" /\ InitConnection(c, patch)
    \/ \E c \in Clients, patch \in WaitingPatches :
          pc = "running" /\ ChangeDesiredQueries(c, patch)

SpecUnsafe == Init /\ [][NextUnsafe]_vars

\* The service from its start to its shutdown, with the clock; clients
\* connect without queries and change them with the patches of WaitingPatches,
\* and an iteration of the run loop may wait for the lock behind a request.
\* Once run() has returned a client may still connect; those connections are
\* followed for a service that had loaded its CVR and not yet initialized its
\* pipelines.
NextIdle ==
    \/ ReplicaWrites("r2", 1, TRUE)
    \/ Load
    \/ RunIteration
    \/ ClientSync
    \/ \E c \in Clients, wsID \in 1..MaxRequests : DeleteClient(c, wsID)
    \/ \E c \in Clients : pc = "running" /\ InitConnection(c, << >>)
    \/ \E c \in Clients, patch \in WaitingPatches :
          pc = "stopped" /\ cvr # NoCVR /\ ~pipeline.initialized /\ InitConnection(c, patch)
    \/ \E c \in Clients, patch \in WaitingPatches :
          pc = "running" /\ ChangeDesiredQueries(c, patch)
    \/ \E c \in Clients : pc = "running" /\ DropStaleMessage(c)
    \/ \E c \in Clients : ClientCloses(c)
    \/ CallWithLock(RunTicket)
    \/ KeepAlive
    \/ Tick
    \/ IdleTimeout
    \/ Stop
    \/ LoopExit

SpecIdle == Init /\ [][NextIdle]_vars

\* An iteration of the run loop can take its next step.
RunIterationEnabled ==
    /\ pc = "running"
    /\ lock.waiting = << >> => (active /\ signals > 0)
    /\ HasTurn(RunTicket)

\* Time passes, a timeout that is due runs, the for-await loop of run() ends
\* once #versionChanges is cancelled, and an operation that has the lock or
\* the next turn goes on. ClientSync is enabled exactly while a request holds
\* the lock and RunIteration exactly when RunIterationEnabled, and a step of
\* either disables it, so their weak fairness is that these conditions are
\* false again and again.
SpecIdleFair ==
    /\ SpecIdle
    /\ WF_vars(Tick)
    /\ WF_vars(IdleTimeout)
    /\ WF_vars(LoopExit)
    /\ []<>(~lock.held)
    /\ []<>(~RunIterationEnabled)

\* The service with a kill and restart of its process.
NextCrash ==
    \/ Next
    \/ Crash

SpecCrash == Init /\ [][NextCrash]_vars

\* ------------------------------------------- #processChanges on its own
\* The rows a change of a stream can carry: none (the row left the query),
\* a row with its _0_version, or a row whose _0_version is missing.
StreamRows ==
    {NoRow, [val |-> 0, version |-> 1], [val |-> 1, version |-> 2], [val |-> 1, version |-> 0]}
StreamChanges == {RowChange(q, r, row) : q \in Queries, r \in Rows, row \in StreamRows}
Streams == UNION {[1..n -> StreamChanges] : n \in 0..MaxChanges}

\* The state of the view syncer, which the other programs leave alone.
serviceVars ==
    << replica, signals, active, pc, lock, cvr, store, pipeline, clients, pendingDelete,
       idleToken, views, cookies, requests, faults, last, calls, registered >>

\* Any change stream, and a page size.
InitChanges ==
    /\ InitService
    /\ feed \in {[stream |-> st, pageSize |-> p, out |-> << >>, done |-> FALSE] :
                    st \in Streams, p \in 1..MaxPage}
    /\ InitClientMap
    /\ InitRooms

\* #processChanges(lc, changes, updater, pokers) on the stream.
ProcessChanges ==
    /\ ~feed.done
    /\ feed' = [feed EXCEPT
                   !.out = processChanges(feed.stream, EmptyBatch, << >>, feed.pageSize),
                   !.done = TRUE]
    /\ UNCHANGED << serviceVars, clientMapVars, roomVars >>

NextChanges == ProcessChanges

SpecChanges == InitChanges /\ [][NextChanges]_vars

\* ------------------------------------------- concurrent updateClients calls
\* A tab calls updateClients(update, dagStore): the read transaction.
UpdateClients(t, u) ==
    /\ tabs[t].at \in {"idle", "returned"}
    /\ clientCalls.updates < MaxUpdates
    /\ clientCalls' = [clientCalls EXCEPT !.updates = @ + 1]
    /\ tabs' = [tabs EXCEPT ![t] = withRead(dagStore, u)]
    /\ UNCHANGED << dagStore, serviceVars, feedVars, roomVars >>

\* The call of the update function, the first or one after a conflict.
RunUpdate(t) ==
    /\ tabs[t].at = "update"
    /\ tabs' = [tabs EXCEPT ![t] = runUpdate(@)]
    /\ UNCHANGED << dagStore, clientCalls, serviceVars, feedVars, roomVars >>

\* The write transaction of a call.
WriteClients(t) ==
    /\ tabs[t].at = "write"
    /\ dagStore' = withWrite(dagStore, tabs[t]).dag
    /\ tabs' = [tabs EXCEPT ![t] = withWrite(dagStore, tabs[t]).tab]
    /\ UNCHANGED << clientCalls, serviceVars, feedVars, roomVars >>

\* Another writer sets a client with setClient in a write transaction of
\* its own.
SetClient(id, client) ==
    /\ clientCalls.sets < MaxSetClients
    /\ clientCalls' = [clientCalls EXCEPT !.sets = @ + 1]
    /\ \E hash \in ChunkHashes([getClientsAtHash(dagStore, dagStore.head)
                                  EXCEPT ![id] = client], clientCalls.sets) :
          dagStore' = setClient(dagStore, id, client, hash)
    /\ UNCHANGED << tabs, serviceVars, feedVars, roomVars >>

NextClients ==
    \/ \E t \in Tabs, u \in ClientsUpdates : UpdateClients(t, u)
    \/ \E t \in Tabs : RunUpdate(t)
    \/ \E t \in Tabs : WriteClients(t)
    \/ \E id \in ClientIDs, client \in {0, 1} : SetClient(id, client)

SpecClients == Init /\ [][NextClients]_vars

\* ------------------------------------------------ concurrent room requests
\* What the room calls leave alone.
notRooms == << serviceVars, feedVars, clientMapVars >>

\* A caller makes a call.
MakesCall(h) ==
    /\ roomCalls[h].at \in {"idle", "returned"}
    /\ roomCount.calls < MaxRoomCalls
    /\ roomCount' = [roomCount EXCEPT !.calls = @ + 1]

\* createRoom up to withWrite: the roomID is validated.
CreateRoom(h, roomID, requireEUStorage) ==
    /\ MakesCall(h)
    /\ LET call == [IdleCall EXCEPT !.op = "createRoom", !.roomID = roomID,
                                    !.requireEUStorage = requireEUStorage]
       IN roomCalls' = [roomCalls EXCEPT ![h] =
              IF ~IsValidRoomID(roomID) THEN Respond(call, "Invalid roomID")
              ELSE [call EXCEPT !.at = "create.lock"]]
    /\ UNCHANGED << rooms, roomLock, notRooms >>

\* createRoom takes the lock and looks for the record of the room.
CreateRoomCheck(h) ==
    /\ roomCalls[h].at = "create.lock"
    /\ CanLock(roomLock)
    /\ IF rooms[roomCalls[h].roomID] # NoRoom
       THEN /\ roomCalls' = [roomCalls EXCEPT ![h] = Respond(@, "room already exists")]
            /\ roomLock' = NoHolder
       ELSE /\ roomCalls' = [roomCalls EXCEPT ![h].at = "create.fetch"]
            /\ roomLock' = h
    /\ UNCHANGED << rooms, roomCount, notRooms >>

\* createRoom, still in the lock: the room object is made and initialized,
\* and when that went well the record is written with status Open.
CreateRoomPut(h, ok) ==
    /\ roomCalls[h].at = "create.fetch"
    /\ roomCount' = [roomCount EXCEPT !.objectIDs = @ + 1]
    /\ IF ~ok
       THEN /\ roomCalls' = [roomCalls EXCEPT ![h] = Respond(@, "error response of the room")]
            /\ UNCHANGED rooms
       ELSE /\ rooms' = [rooms EXCEPT ![roomCalls[h].roomID] =
                            [status |-> Open, objectIDString |-> roomCount.objectIDs + 1,
                             requireEUStorage |-> roomCalls[h].requireEUStorage]]
            /\ roomCalls' = [roomCalls EXCEPT ![h] = Respond(@, Success)]
    /\ roomLock' = NoHolder
    /\ UNCHANGED notRooms

\* closeRoom up to withWrite.
CloseRoom(h, roomID) ==
    /\ MakesCall(h)
    /\ LET call == [IdleCall EXCEPT !.op = "closeRoom", !.roomID = roomID]
       IN roomCalls' = [roomCalls EXCEPT ![h] =
              IF roomID = NoRoomID THEN Respond(call, "Missing roomID")
              ELSE [call EXCEPT !.at = "close.lock"]]
    /\ UNCHANGED << rooms, roomLock, notRooms >>

\* closeRoom takes the lock and reads the record.
CloseRoomCheck(h) ==
    /\ roomCalls[h].at = "close.lock"
    /\ CanLock(roomLock)
    /\ LET roomRecord == rooms[roomCalls[h].roomID] IN
       IF roomRecord = NoRoom
       THEN /\ roomCalls' = [roomCalls EXCEPT ![h] = Respond(@, "no such room")]
            /\ roomLock' = NoHolder
       ELSE IF roomRecord.status = Closed
       THEN /\ roomCalls' = [roomCalls EXCEPT ![h] = Respond(@, "success (room already closed)")]
            /\ roomLock' = NoHolder
       ELSE IF roomRecord.status # Open
       THEN /\ roomCalls' = [roomCalls EXCEPT ![h] = Respond(@, "room is not open")]
            /\ roomLock' = NoHolder
       ELSE /\ roomCalls' = [roomCalls EXCEPT ![h].at = "close.put",
                                              ![h].roomRecord = roomRecord]
            /\ roomLock' = h
    /\ UNCHANGED << rooms, roomCount, notRooms >>

\* closeRoom, still in the lock, writes the record with status Closed.
CloseRoomPut(h) ==
    /\ roomCalls[h].at = "close.put"
    /\ rooms' = [rooms EXCEPT ![roomCalls[h].roomID] =
                    [roomCalls[h].roomRecord EXCEPT !.status = Closed]]
    /\ roomCalls' = [roomCalls EXCEPT ![h] = Respond(@, Success)]
    /\ roomLock' = NoHolder
    /\ UNCHANGED << roomCount, notRooms >>

\* deleteRoom up to its first read.
DeleteRoom(h, roomID) ==
    /\ MakesCall(h)
    /\ LET call == [IdleCall EXCEPT !.op = "deleteRoom", !.roomID = roomID]
       IN roomCalls' = [roomCalls EXCEPT ![h] =
              IF roomID = NoRoomID THEN Respond(call, "Missing roomID")
              ELSE [call EXCEPT !.at = "delete.read"]]
    /\ UNCHANGED << rooms, roomLock, notRooms >>

\* deleteRoom reads the record under the read lock, which it then lets go.
DeleteRoomRead(h) ==
    /\ roomCalls[h].at = "delete.read"
    /\ CanLock(roomLock)
    /\ LET roomRecord == rooms[roomCalls[h].roomID] IN
       roomCalls' = [roomCalls EXCEPT ![h] =
           IF roomRecord = NoRoom THEN Respond(@, "no such room")
           ELSE IF roomRecord.status = Deleted
           THEN Respond(@, "success (room already deleted)")
           ELSE IF roomRecord.status # Closed THEN Respond(@, "room must first be closed")
           ELSE [@ EXCEPT !.at = "delete.fetch", !.roomRecord = roomRecord]]
    /\ UNCHANGED << rooms, roomLock, roomCount, notRooms >>

\* deleteRoom has the room object delete its data, outside of the lock.
DeleteRoomFetch(h, ok) ==
    /\ roomCalls[h].at = "delete.fetch"
    /\ roomCalls' = [roomCalls EXCEPT ![h] =
           IF ~ok THEN Respond(@, "error response of the room")
           ELSE [@ EXCEPT !.at = "delete.lock"]]
    /\ UNCHANGED << rooms, roomLock, roomCount, notRooms >>

\* deleteRoom takes the lock, reads the record again and writes it with
\* status Deleted.
DeleteRoomWrite(h) ==
    /\ roomCalls[h].at = "delete.lock"
    /\ CanLock(roomLock)
    /\ LET freshRoomRecord == rooms[roomCalls[h].roomID] IN
       IF freshRoomRecord = NoRoom
       THEN /\ roomCalls' = [roomCalls EXCEPT ![h] = Respond(@, "room record disappeared")]
            /\ UNCHANGED rooms
       ELSE /\ rooms' = [rooms EXCEPT ![roomCalls[h].roomID] =
                            [freshRoomRecord EXCEPT !.status = Deleted]]
            /\ roomCalls' = [roomCalls EXCEPT ![h] = Respond(@, Success)]
    /\ roomLock' = NoHolder
    /\ UNCHANGED << roomCount, notRooms >>

NextRooms ==
    \/ \E h \in Callers, roomID \in RoomIDs, eu \in BOOLEAN : CreateRoom(h, roomID, eu)
    \/ \E h \in Callers : CreateRoomCheck(h)
    \/ \E h \in Callers, ok \in BOOLEAN : CreateRoomPut(h, ok)
    \/ \E h \in Callers, roomID \in RoomIDs \cup {NoRoomID} : CloseRoom(h, roomID)
    \/ \E h \in Callers : CloseRoomCheck(h)
    \/ \E h \in Callers : CloseRoomPut(h)
    \/ \E h \in Callers, roomID \in RoomIDs \cup {NoRoomID} : DeleteRoom(h, roomID)
    \/ \E h \in Callers : DeleteRoomRead(h)
    \/ \E h \in Callers, ok \in BOOLEAN : DeleteRoomFetch(h, ok)
    \/ \E h \in Callers : DeleteRoomWrite(h)

SpecRooms == Init /\ [][NextRooms]_vars

\* ------------------------------------------------------------------ claims
\* The view a client at the CVR's version is to have: the rows of the
\* pipeline's snapshot that a got query matches, with their contents.
ExpectedView(snapshot, snap) ==
    [r \in Rows |->
        IF \E q \in GotQueries(snapshot) \cap Queries : RowMatches(q, snap[r])
        THEN snap[r].val ELSE Absent]

\* C10: the assertion at the end of #syncQueryPipelineSet never fails.
C10_SyncAssertionHolds == last.err # "Assert"

\* C1: a client that has committed the poke to the CVR's version holds exactly
\* the rows that the got queries of the CVR match in the replica snapshot of
\* that state version.
C1_ViewCorrect ==
    \A c \in Clients :
        (/\ cookies[c] # NullVersion
         /\ cookies[c] = cvr.version
         /\ pipeline.version = cvr.version[1])
        => views[c] = ExpectedView(cvr, pipeline.snap)

\* C2: the cookies a client receives in pokeStart strictly increase: every
\* pokeStart carries a version greater than the cookie of the one before it
\* (or than the base cookie of the connection).
C2_CookiesIncrease == \A c \in Clients : clients[c].monotone

\* C3: pokes are framed: no pokeStart is sent to a client while an earlier
\* poke of its connection is still open.
C3_PokesFramed == \A c \in Clients : clients[c].framed

\* C4: a request fails with the invalid-query error only when the requesting
\* client itself put the invalid query; the requests of the other clients of
\* the group are processed successfully.
C4_FailureIsolated ==
    (last.op \in {"initConnection", "changeDesiredQueries"} /\ last.err = "BadQuery")
    => (last.bad \/ cvr.queries[BadQuery].desiredBy[last.clientID] # NoVersion)

\* C5: a query that the pipeline rejects as invalid is never recorded in the
\* durable CVR.
C5_BadQueryNotStored == ~store.queries[BadQuery].present

\* C8: a row of the CVR counts references only of queries that are in the CVR
\* and got.
C8_RefCountsOfGotQueries ==
    \A r \in Rows, q \in Queries :
        cvr.rows[r].refCounts[q] > 0 => (cvr.queries[q].present /\ cvr.queries[q].got)

\* An operation of the service (a client request under the lock, or an
\* iteration of the run loop) ends in this step by throwing before or at its
\* flush.
ThrowsBeforeFlushed ==
    /\ \/ lock.held /\ ~lock'.held
       \/ signals > 0 /\ signals' = 0 /\ active'
    /\ last'.op # "crash"
    /\ last'.err \in {"BadQuery", "InvalidVersion", "Unavailable"}

\* C6: once loaded, #cvr is the CVR that was flushed last, and an operation
\* in which processChanges, deleteUnreferencedRows or flush throws leaves #cvr
\* the snapshot it was when the operation started.
C6_SnapshotIsFlushed ==
    /\ [](cvr # NoCVR => cvr = store)
    /\ [][ThrowsBeforeFlushed => cvr' = cvr]_vars

\* An operation failed at its flush and the snapshot is still the CVR flushed
\* before it.
C6_Witness ==
    /\ last.err = "Unavailable"
    /\ cvr.version # NullVersion
    /\ cvr = store

\* C7: a kill of the process leaves the durable CVR as its last flush wrote
\* it, whole, which is the snapshot the service held if it had loaded one;
\* the restarted service, when its load succeeds, loads exactly that CVR.
C7_AtomicFlush ==
    /\ [][(pc # "start" /\ pc' = "start")
             => (store' = store /\ (cvr # NoCVR => store = cvr))]_vars
    /\ [][(pc = "start" /\ pc' = "running") => (cvr' = store /\ store' = store)]_vars

\* The service was killed after flushes, restarted, and has loaded the CVR.
C7_Witness ==
    /\ last.op = "crash"
    /\ pc = "running"
    /\ cvr = store
    /\ \E r \in Rows : cvr.rows[r].present

\* C9 as stated: the CVR's version is at least every client's patchVersion,
\* and every client's patchVersion is at least every row's patchVersion.
C9_VersionOrdering ==
    \A c \in Clients :
        cvr.clients[c].present =>
            /\ cmpVersions(cvr.version, cvr.clients[c].patchVersion) >= 0
            /\ \A r \in Rows :
                  cvr.rows[r].present =>
                      cmpVersions(cvr.clients[c].patchVersion, cvr.rows[r].patchVersion) >= 0

\* C9, amended: the CVR's version is at least every client's patchVersion and
\* at least every row's patchVersion.
C9_VersionBounds ==
    /\ \A c \in Clients :
          cvr.clients[c].present =>
              cmpVersions(cvr.version, cvr.clients[c].patchVersion) >= 0
    /\ \A r \in Rows :
          cvr.rows[r].present =>
              cmpVersions(cvr.version, cvr.rows[r].patchVersion) >= 0

\* A CVR with a client and a row whose patchVersion is greater than the
\* client's.
C9_Witness ==
    \E c \in Clients, r \in Rows :
        /\ cvr.clients[c].present
        /\ cvr.rows[r].present
        /\ cmpVersions(cvr.clients[c].patchVersion, cvr.rows[r].patchVersion) < 0

\* C11: while the pipeline is initialized the CVR's stateVersion is at most
\* the pipeline's version, and the versions at which updaters are created
\* (the pipeline's current version, and the replica version an advance
\* returns) are never below the CVR's stateVersion.
C11_PipelineNotBehindCVR ==
    pipeline.initialized =>
        /\ cvr.version[1] <= pipeline.version
        /\ pipeline.version <= replica.version
        /\ store.version[1] <= pipeline.version

\* An advancement was processed: the CVR moved to the stateVersion of the
\* pipeline, beyond the version it was hydrated at.
C11_Witness ==
    /\ pipeline.initialized
    /\ last.op = "signal"
    /\ last.ok
    /\ cvr.version[1] = pipeline.version
    /\ \E c \in Clients : cookies[c][1] = cvr.version[1] /\ clients[c].version = cvr.version
    /\ \E r \in Rows : cvr.rows[r].present /\ cvr.rows[r].patchVersion[1] < cvr.version[1]

\* C12: within one poke of #addAndRemoveQueries a client does not receive
\* both the hydration put of row r produced by addQuery(q) and a catch-up put
\* of r whose only query reference is q; the catch-up excludes the added
\* queries, so no catch-up put of the poke is for a row that only a query
\* added in that poke references.
C12_NoDuplicatePut ==
    \A c \in Clients :
        /\ \A h \in clients[c].hydrated : << h[2], {h[1]} >> \notin clients[c].caughtUp
        /\ \A p \in clients[c].caughtUp, q \in clients[c].queryPuts : p[2] # {q}

\* A client received, in one poke that was committed, the hydration put of a
\* row for an added query and catch-up puts.
C12_Witness ==
    \E c \in Clients :
        /\ IsOpen(clients[c])
        /\ ~clients[c].inPoke
        /\ clients[c].version = cvr.version
        /\ clients[c].hydrated # {}
        /\ clients[c].caughtUp # {}
        /\ \E h \in clients[c].hydrated : h[1] \in clients[c].queryPuts

\* C13: in every advancement (a replica-ready signal processed by
\* #advancePipelines) each client whose connection is open when it starts is
\* sent a pokeStart, all with the same cookie, and the stateVersion of that
\* cookie is the version that advance() returned; a client that is not
\* registered when the advancement starts gets nothing from it.
C13_AdvancementPokes ==
    [][(pc = "running" /\ pipeline.initialized /\ signals = 1 /\ signals' = 0 /\ active')
        => \A c \in Clients :
              /\ IsOpen(clients[c]) =>
                    /\ clients'[c].cookie[1] = pipeline'.version
                    /\ pipeline'.version = replica.version
                    /\ clients'[c].cookie # clients[c].cookie
                    /\ \A d \in Clients : IsOpen(clients[d]) =>
                          clients'[d].cookie = clients'[c].cookie
              /\ ~clients[c].present => clients'[c] = clients[c]]_vars

\* An advancement has poked two connected clients to the same cookie at the
\* replica's new version, and both have committed it; the CVR holds a row
\* that was hydrated at the version before.
C13_Witness ==
    /\ last.op = "signal"
    /\ last.ok
    /\ pipeline.version = replica.version
    /\ pipeline.version > 1
    /\ \A c \in Clients :
          /\ IsOpen(clients[c])
          /\ clients[c].cookie = << pipeline.version, 0 >>
          /\ cookies[c] = clients[c].cookie
    /\ \E r \in Rows : cvr.rows[r].present /\ cvr.rows[r].patchVersion[1] < pipeline.version

\* The steps of the operations that run under the lock, as they show in the
\* state: the CVR load, an iteration of the run loop, a #deleteClient, a
\* client request that enters its body, and the end of a request that was
\* suspended in its body.
LoadStep == pc = "start" /\ pc' # "start"
RunStep ==
    /\ signals > 0
    /\ signals' = 0
    /\ active' \/ (last'.op = "signal" /\ ~last'.ok)
DeleteStep == \E e \in pendingDelete : e \notin pendingDelete'
RequestStarts ==
    IF lock.waiting = << >>
    THEN requests' = requests + 1 /\ lock'.waiting = << >>
    ELSE /\ Head(lock.waiting).op \in {"initConnection", "changeDesiredQueries"}
         /\ lock'.waiting = Tail(lock.waiting)
         /\ requests' = requests
RequestEnds == lock.held /\ ~lock'.held

\* The step is the operation of the withLock call t.
OperationOf(t) ==
    IF t.op = "run" THEN RunStep
    ELSE IF t.op = "deleteClient"
    THEN << t.clientID, t.wsID >> \in pendingDelete
         /\ << t.clientID, t.wsID >> \notin pendingDelete'
    ELSE /\ RequestStarts
         /\ \/ lock'.held /\ lock'.clientID = t.clientID /\ lock'.op = t.op
            \/ ~lock'.held /\ last'.clientID = t.clientID
                           /\ last'.op \in {t.op, "dropped"}
         /\ t.op = "initConnection" =>
               clients'[t.clientID].present /\ clients'[t.clientID].wsID = t.wsID

\* The handlers registered in #clients.
Registered == [c \in Clients |-> << clients[c].present, clients[c].wsID >>]

DropStep ==
    /\ ~lock.held
    /\ ~lock'.held
    /\ \/ /\ lock.waiting = << >>
          /\ lock'.waiting = << >>
          /\ requests' = requests + 1
          /\ last'.op = "dropped"
       \/ /\ lock.waiting # << >>
          /\ lock'.waiting = Tail(lock.waiting)
          /\ Head(lock.waiting).op = "changeDesiredQueries"
          /\ Registered[Head(lock.waiting).clientID] # << TRUE, Head(lock.waiting).wsID >>

\* C15: a changeDesiredQueries message whose wsID is not the one registered
\* for its client is dropped: the call returns without an error and #cvr,
\* the durable CVR, #clients, the pipeline and what every client has been
\* sent and has committed are as they were.
C15_StaleMessageDropped ==
    [][DropStep =>
          /\ last'.ok
          /\ last'.err = "none"
          /\ UNCHANGED << cvr, store, clients, pipeline, views, cookies >>]_vars

\* A message was dropped while a client is connected and the CVR holds its
\* desired queries.
C15_Witness ==
    /\ last.op = "dropped"
    /\ last.ok
    /\ \E c \in Clients : IsOpen(clients[c]) /\ cvr.clients[c].present
    /\ \E q \in Queries : cvr.queries[q].present
    /\ pipeline.initialized

\* C16: an initConnection of a client whose earlier connection is registered
\* registers the new handler in its place and closes the earlier one (the
\* close defers a #deleteClient of it); a #deleteClient of a handler that is
\* not the registered one leaves #clients and the idle timer as they are.
C16_ReplacedHandler ==
    [][\A c \in Clients :
          /\ (clients[c].present /\ clients'[c].present
                 /\ clients'[c].wsID # clients[c].wsID)
                => /\ IsOpen(clients'[c])
                   /\ IsOpen(clients[c]) => << c, clients[c].wsID >> \in pendingDelete'
                   /\ ~IsOpen(clients[c]) =>
                         (<< c, clients[c].wsID >> \in pendingDelete
                             \/ IsWaiting(DeleteTicket(c, clients[c].wsID)))
          /\ \A w \in 1..MaxRequests :
                (<< c, w >> \in pendingDelete /\ << c, w >> \notin pendingDelete'
                    /\ Registered[c] # << TRUE, w >>)
                => (Registered' = Registered /\ idleToken' = idleToken)]_vars

\* The deferred #deleteClient of a replaced handler has run and the
\* replacement is still registered and open.
C16_Witness ==
    \E c \in Clients :
        /\ IsOpen(clients[c])
        /\ clients[c].wsID = 2
        /\ << c, 1 >> \notin pendingDelete
        /\ ~IsWaiting(DeleteTicket(c, 1))
        /\ \A d \in Clients \ {c} : ~clients[d].present
        /\ ~idleToken.armed

\* C17: when the removal of a handler leaves #clients empty the idle timer
\* is armed for keepaliveMs; and once it is armed, unless a request
\* (initConnection, changeDesiredQueries) clears it or a keepalive starts it
\* again, run() ends: the loop is left and the pipeline destroyed by #cleanup.
C17_IdleShutdown ==
    /\ [][((\E c \in Clients : clients[c].present)
             /\ (\A c \in Clients : ~clients'[c].present))
          => (idleToken'.armed /\ idleToken'.remaining = KeepaliveTicks)]_vars
    /\ (idleToken.armed /\ idleToken.alive < KeepaliveTicks)
          ~> \/ ~active /\ pc = "stopped" /\ pipeline.destroyed
             \/ ~idleToken.armed
             \/ idleToken.alive = KeepaliveTicks

\* The idle timeout has shut the service down: the timer ran out with no
\* client registered, #versionChanges is cancelled and run() has ended.
C17_Witness ==
    /\ idleToken.armed
    /\ idleToken.fired
    /\ idleToken.remaining = 0
    /\ ~active
    /\ pc = "stopped"
    /\ pipeline.destroyed
    /\ pipeline.initialized
    /\ last.op # "keepalive"
    /\ last.ok
    /\ \A c \in Clients : ~clients[c].present

\* C18: the timeout of an idle timer does not cancel #versionChanges while an
\* initConnection, invoked before the timeout fired, holds the lock.
C18_TimerHeldOffByRequest ==
    [][(~idleToken.fired /\ idleToken'.fired)
          => ~(lock.held /\ lock.op = "initConnection")]_vars

\* A step of keepalive(): the outcome recorded is a new one of keepalive, or
\* the time left of the last keepalive grows.
KeepAliveStep ==
    \/ last' # last /\ last'.op = "keepalive"
    \/ idleToken'.alive > idleToken.alive

\* C19: keepalive() returns true exactly while #versionChanges is active; a
\* call that returns true starts an armed idle timer again for a full
\* keepaliveMs and arms none when none is armed, one that returns false
\* changes nothing; and the idle timeout cancels #versionChanges only when a
\* full keepaliveMs has passed since the last keepalive() that returned true.
C19_KeepAlive ==
    /\ [][KeepAliveStep =>
            /\ last'.op = "keepalive"
            /\ last'.ok = active
            /\ idleToken'.armed = idleToken.armed
            /\ IF active
               THEN /\ idleToken'.alive = KeepaliveTicks
                    /\ idleToken.armed => idleToken'.remaining = KeepaliveTicks
               ELSE idleToken' = idleToken
            /\ UNCHANGED << replica, signals, active, pc, lock, cvr, store, pipeline,
                            clients, pendingDelete, views, cookies, requests, faults >>]_vars
    /\ [][(~idleToken.fired /\ idleToken'.fired) => idleToken.alive = 0]_vars

\* The idle timeout has cancelled #versionChanges after a keepalive() that
\* returned true: the full keepaliveMs has passed since.
C19_Witness ==
    /\ idleToken.fired
    /\ idleToken.alive = 0
    /\ last.op = "keepalive"
    /\ last.ok
    /\ ~active
    /\ pc = "running"

\* The for-await loop of run() is left: run() goes on to #cleanup.
RunEnds == pc = "running" /\ pc' = "stopped"

\* C20 as stated: once #versionChanges is cancelled an iteration that waits
\* for the lock still runs and the loop is not left before it has, no other
\* iteration starts, and run() ends with every handler that was open closed
\* by close().
C20_StopClosesCleanly ==
    /\ [][(IsWaiting(RunTicket) /\ ~IsWaiting(RunTicket)')
             => (last'.op = "signal" /\ pc = "running")]_vars
    /\ [][~active => ~(~IsWaiting(RunTicket) /\ IsWaiting(RunTicket)')]_vars
    /\ [][(~active /\ ~IsWaiting(RunTicket))
             => (pipeline'.version = pipeline.version
                   /\ pipeline'.initialized = pipeline.initialized)]_vars
    /\ [][(~active /\ RunEnds)
             => \A c \in Clients : IsOpen(clients[c]) => clients'[c].status = "closed"]_vars
    /\ (~active /\ pc = "running")
          ~> (pc = "stopped" /\ \A c \in Clients : ~IsOpen(clients[c]))

\* C20, amended: as C20_StopClosesCleanly, but the handlers are closed by
\* close() only if the iteration in progress does not throw; when it throws,
\* run() ends with that iteration and the handlers are failed with its error.
C20_StopClosesOrFails ==
    /\ [][(IsWaiting(RunTicket) /\ ~IsWaiting(RunTicket)')
             => (last'.op = "signal" /\ pc = "running")]_vars
    /\ [][~active => ~(~IsWaiting(RunTicket) /\ IsWaiting(RunTicket)')]_vars
    /\ [][(~active /\ ~IsWaiting(RunTicket))
             => (pipeline'.version = pipeline.version
                   /\ pipeline'.initialized = pipeline.initialized)]_vars
    /\ [][(~active /\ RunEnds)
             => \A c \in Clients :
                   IsOpen(clients[c]) =>
                      clients'[c].status = IF IsWaiting(RunTicket) THEN "failed"
                                           ELSE "closed"]_vars
    /\ (~active /\ pc = "running")
          ~> (pc = "stopped" /\ \A c \in Clients : ~IsOpen(clients[c]))

\* stop() has cancelled #versionChanges while an iteration of the run loop
\* waits for the lock and a handler is open.
C20_Witness ==
    /\ ~active
    /\ ~idleToken.fired
    /\ pc = "running"
    /\ IsWaiting(RunTicket)
    /\ \E c \in Clients : IsOpen(clients[c])

\* run() ends with an error in this step: the CVR load or an iteration of the
\* run loop threw.
RunFails == pc # "stopped" /\ pc' = "stopped" /\ ~last'.ok /\ last'.op \in {"load", "signal"}

\* C21: when the CVR load or an iteration of the run loop throws,
\* #versionChanges is cancelled and every handler registered then is failed;
\* afterwards keepalive() returns false and no signal is processed.
C21_FailureCancels ==
    /\ [][RunFails =>
            /\ ~active'
            /\ \A c \in Clients : IsOpen(clients[c]) => clients'[c].status = "failed"]_vars
    /\ [][(pc = "stopped" /\ KeepAliveStep) => ~last'.ok]_vars
    /\ [][pc = "stopped" => (pc' = "stopped" /\ pipeline'.version = pipeline.version)]_vars

\* C22: once run() has returned nothing flushes a new CVR version, no client
\* commits a poke, and no handler is registered and open.
C22_StoppedIsTerminal ==
    /\ [][pc = "stopped" =>
            /\ pc' = "stopped"
            /\ store'.version = store.version
            /\ cookies' = cookies
            /\ views' = views]_vars
    /\ [](pc = "stopped" => \A c \in Clients : ~IsOpen(clients[c]))

\* An operation ends in this step with the error of #processChanges on a row
\* without a valid _0_version: a client request that hydrates, or an iteration
\* of the run loop.
BadRowVersion ==
    /\ last'.err = "InvalidVersion"
    /\ RequestEnds \/ RunEnds

\* C23: when #processChanges throws on a row without a valid _0_version, no
\* client commits the poke in progress, #cvr and the durable CVR are as they
\* were, and at most one client, the one whose poke failed, is disconnected.
C23_BadRowVersion ==
    [][BadRowVersion =>
         /\ cvr' = cvr
         /\ store' = store
         /\ cookies' = cookies
         /\ views' = views
         /\ \A c, d \in Clients :
               (IsOpen(clients[c]) /\ ~IsOpen(clients'[c])
                  /\ IsOpen(clients[d]) /\ ~IsOpen(clients'[d])) => c = d]_vars

\* The handlers of a service without clients.
NoClients == [c \in Clients |-> NoHandler]

\* An iteration of the run loop advances the pipelines over a write that gave
\* a row of an added query contents that are not safe to send.
UnsafeAdvance ==
    /\ pipeline.initialized
    /\ signals > 0
    /\ signals' = 0
    /\ last'.op = "signal"
    /\ \E r \in Rows :
          /\ replica.rows[r].val = Unsafe
          /\ pipeline.snap[r].val # Unsafe
          /\ \E q \in pipeline.added : RowMatches(q, replica.rows[r])

FirstSignal == pc = "running" /\ ~pipeline.initialized /\ pipeline'.initialized /\ last'.ok

\* A connected client that came with baseCookie = null and desires query q.
FreshClient(c, q) ==
    /\ IsOpen(clients[c])
    /\ clients[c].version = NullVersion
    /\ cvr.clients[c].desiredQueryIDs = {q}

\* The rows of the replica that query q matches.
MatchingRows(q) == {r \in Rows : replica.rows[r].val # Absent /\ Matches(q, replica.rows[r].val)}

ChangeSyncs(adds, rems) ==
    /\ lock.held
    /\ lock.op = "changeDesiredQueries"
    /\ ~lock'.held
    /\ last'.ok
    /\ DesiredQueries(cvr) \ pipeline.added = adds
    /\ AllClientQueries(cvr) \ DesiredQueries(cvr) = rems

\* The rows of the CVR whose only reference is query q.
OnlyReferencedBy(q) == {r \in Rows : cvr.rows[r].present /\ RefQueries(cvr.rows[r]) = {q}}

PatchStep(c, patch) ==
    patch # << >> /\ (InitConnection(c, patch) \/ ChangeDesiredQueries(c, patch))

InitConnectionReturns(c) ==
    /\ ~lock'.held
    /\ last'.op = "initConnection"
    /\ last'.clientID = c
    /\ last'.ok
    /\ \/ \E patch \in Patches : InitConnection(c, patch)
       \/ lock.held /\ lock.op = "initConnection" /\ lock.clientID = c

\* C28: when an initConnection of client c returns normally, whatever its
\* desiredQueriesPatch was, the CVR has a client record for c.
C28_ClientRecordOnConnect ==
    [][\A c \in Clients : InitConnectionReturns(c) => cvr'.clients[c].present]_vars

\* The step in which a #syncQueryPipelineSet completes without error: the
\* first iteration of run(), or the end of a client request that ran it.
SyncCompletes ==
    /\ last'.ok
    /\ \/ FirstSignal
       \/ lock.held /\ ~lock'.held

\* C29: when #syncQueryPipelineSet has completed without error, the queries
\* added to the pipeline are the desired queries of the CVR, every query left
\* in the CVR is desired, and every desired query is got.
C29_ReconcilerConverges ==
    [][SyncCompletes =>
          /\ pipeline'.added = DesiredQueries(cvr')
          /\ AllClientQueries(cvr') = DesiredQueries(cvr')
          /\ DesiredQueries(cvr') \subseteq GotQueries(cvr')]_vars

\* C30: whenever the lock is free and the pipeline is initialized, the
\* version() of every handler registered in #clients whose downstream is
\* open equals the version of #cvr, so that the poke of the next
\* advancement starts, for every client, from the CVR version that precedes
\* it.
C30_HandlersAtCVRVersion ==
    (~lock.held /\ pipeline.initialized)
    => \A c \in Clients : IsOpen(clients[c]) => clients[c].version = cvr.version

\* The state #hydrateUnchangedQueries is called in: the first iteration of
\* run() has just called pipelines.init().
AtHydrateUnchanged ==
    [Service EXCEPT !.pipeline.initialized = TRUE,
                    !.pipeline.version = replica.version,
                    !.pipeline.snap = replica.rows]

\* The queries of the CVR that are got and still desired by a client (or
\* internal).
GotAndDesired ==
    {q \in AllQueries :
        /\ cvr.queries[q].present
        /\ cvr.queries[q].got
        /\ (cvr.queries[q].internal
            \/ \E c \in Clients : cvr.queries[q].desiredBy[c] # NoVersion)}

RECURSIVE ChangesBefore(_, _)
ChangesBefore(batches, k) ==
    IF k = 0 THEN 0 ELSE BatchChanges(batches[k]) + ChangesBefore(batches, k - 1)

\* The positions of the stream that went into call k.
SegmentOf(batches, k) ==
    (ChangesBefore(batches, k - 1) + 1)..ChangesBefore(batches, k)

\* The rowIDs that the changes at the positions `seg` of the stream name.
RowsOfSegment(stream, seg) == {stream[i].rowKey : i \in seg}

\* C32: #processChanges hands updater.received maps of at least one and at
\* most pageSize distinct rowIDs, every one but the last of exactly pageSize;
\* when it returns every change of the stream has gone into exactly one call,
\* the calls take consecutive stretches of the stream in stream order, each
\* map holds exactly the rowIDs of its stretch, and the map is empty.
C32_Paging ==
    feed.done =>
        /\ \A k \in 1..Len(feed.out.batches) :
              /\ BatchSize(feed.out.batches[k]) >= 1
              /\ BatchSize(feed.out.batches[k]) <= feed.pageSize
              /\ (k < Len(feed.out.batches) \/ feed.out.err)
                    => BatchSize(feed.out.batches[k]) = feed.pageSize
              /\ {r \in Rows : feed.out.batches[k][r].seen}
                    = RowsOfSegment(feed.stream, SegmentOf(feed.out.batches, k))
              /\ \A r \in Rows :
                    feed.out.batches[k][r].n
                       = Cardinality({i \in SegmentOf(feed.out.batches, k) :
                                         feed.stream[i].rowKey = r})
        /\ ~feed.out.err =>
              /\ ChangesBefore(feed.out.batches, Len(feed.out.batches)) = Len(feed.stream)
              /\ BatchSize(feed.out.rows) = 0

\* A stream of three changes over two rows was paged by two: a full map of
\* two rows and a last map of one row.
C32_Witness ==
    /\ feed.done
    /\ ~feed.out.err
    /\ feed.pageSize = 2
    /\ Len(feed.stream) = 3
    /\ Len(feed.out.batches) = 2
    /\ BatchSize(feed.out.batches[1]) = 2
    /\ BatchSize(feed.out.batches[2]) = 1

\* The changes at the positions `seg` of the stream that carry row r.
WithRow(stream, seg, r) ==
    {i \in seg : stream[i].rowKey = r /\ stream[i].row.val # Absent}

\* The first of them.
FirstWithRow(stream, seg, r) ==
    CHOOSE i \in WithRow(stream, seg, r) : \A j \in WithRow(stream, seg, r) : i <= j

\* The change at position j carries a row without a _0_version and is the
\* first of the batch starting at position lo that carries its row.
InvalidFirst(stream, lo, j) ==
    /\ stream[j].row.val # Absent
    /\ stream[j].row.version = 0
    /\ WithRow(stream, lo..(j - 1), stream[j].rowKey) = {}

\* C33: in every map handed to updater.received, refCounts[q] of row r is the
\* number of changes of the batch for (q, r) that carry a row minus the number
\* that carry none, and the version and contents of r are those of the first
\* change of the batch that carries r (none if no change does);
\* #processChanges throws exactly when the first change of a batch that
\* carries some row has no valid _0_version.
C33_RefCounts ==
    feed.done =>
        /\ \A k \in 1..Len(feed.out.batches), r \in Rows :
              LET seg == SegmentOf(feed.out.batches, k)
                  upd == feed.out.batches[k][r]
              IN /\ \A q \in Queries :
                        upd.refCounts[q] =
                            Cardinality({i \in seg : /\ << feed.stream[i].queryHash, feed.stream[i].rowKey >> = << q, r >>
                                                     /\ feed.stream[i].row.val # Absent})
                          - Cardinality({i \in seg : /\ << feed.stream[i].queryHash, feed.stream[i].rowKey >> = << q, r >>
                                                     /\ feed.stream[i].row.val = Absent})
                 /\ IF WithRow(feed.stream, seg, r) = {}
                    THEN upd.version = 0 /\ upd.contents = Absent
                    ELSE /\ upd.version
                              = feed.stream[FirstWithRow(feed.stream, seg, r)].row.version
                         /\ upd.contents
                              = feed.stream[FirstWithRow(feed.stream, seg, r)].row.val
                         /\ upd.version # 0
        /\ feed.out.err <=>
              \E j \in (ChangesBefore(feed.out.batches, Len(feed.out.batches)) + 1)
                          ..Len(feed.stream) :
                 /\ InvalidFirst(feed.stream,
                                 ChangesBefore(feed.out.batches, Len(feed.out.batches)) + 1, j)
                 /\ Cardinality(RowsOfSegment(feed.stream,
                        (ChangesBefore(feed.out.batches, Len(feed.out.batches)) + 1)
                           ..(j - 1))) < feed.pageSize

\* One map got a row that two changes of the batch carried, with different
\* contents, and that a third change took away for another query.
C33_Witness ==
    /\ feed.done
    /\ ~feed.out.err
    /\ Len(feed.out.batches) = 1
    /\ feed.stream[1].rowKey = "r1" /\ feed.stream[1].row.val = 0
    /\ Len(feed.stream) = 3
    /\ feed.stream[2].rowKey = "r1" /\ feed.stream[2].row.val = 1
    /\ feed.stream[3].rowKey = "r1" /\ feed.stream[3].row.val = Absent
    /\ feed.stream[1].queryHash = "q1" /\ feed.stream[2].queryHash = "q1"
    /\ feed.stream[3].queryHash = "q2"
    /\ feed.out.batches[1]["r1"].refCounts = [q \in Queries |-> IF q = "q1" THEN 2 ELSE -1]
    /\ feed.out.batches[1]["r1"].contents = 0

\* The positions of a call in the list of calls.
CallsOf(trace, name) == {i \in 1..Len(trace) : trace[i] = name}

\* The step is an operation that ran a query-driven updater up to its flush:
\* an iteration of run() or the #syncQueryPipelineSet of a client request.
UpdaterCycle ==
    /\ RunStep \/ RequestEnds
    /\ last'.ok
    /\ CallsOf(calls', "flush") # {}

\* C34: in every cycle of a query-driven updater that the service runs to
\* its flush, deleteUnreferencedRows is called exactly once, after every
\* call of received and before the flush.
C34_DeleteUnreferencedOnce ==
    [][UpdaterCycle =>
          /\ Cardinality(CallsOf(calls', "deleteUnreferencedRows")) = 1
          /\ Cardinality(CallsOf(calls', "flush")) = 1
          /\ \A d \in CallsOf(calls', "deleteUnreferencedRows") :
                /\ \A r \in CallsOf(calls', "received") : r < d
                /\ \A f \in CallsOf(calls', "flush") : d < f]_vars

\* C35: no catch-up fails on a missing row: every row that the catch-up
\* finds referenced in the CVR is a row the pipeline returns, also after a
\* restart on a CVR that is behind the replica and for clients behind the CVR.
C35_NoMissingRow == last.err # "MissingRow"

\* The step is an operation that signalled clients to commit their poke.
EndsPokes ==
    /\ RunStep \/ RequestEnds
    /\ CallsOf(calls', "end") # {}

\* C36: flush precedes commit. In an operation that ends pokes, every
\* poker.end() comes after the updater's flush has returned, and an
\* operation that ends pokes without a query-driven updater (a catch-up on
\* its own) leaves the durable CVR as the request's config flush made it;
\* a client whose committed cookie moves is at a version that is durable:
\* at most the stored CVR's version, and the stored CVR is the snapshot.
C36_FlushPrecedesEnd ==
    [][EndsPokes =>
          /\ \A e \in CallsOf(calls', "end") :
                \A f \in CallsOf(calls', "flush") : f < e
          /\ CallsOf(calls', "received") \cup CallsOf(calls', "deleteUnreferencedRows") # {}
                => CallsOf(calls', "flush") # {}
          /\ \A c \in Clients :
                cookies'[c] # cookies[c]
                => /\ cmpVersions(cookies'[c], store'.version) <= 0
                   /\ CallsOf(calls', "flush") = {} => cookies'[c] = cvr'.version
                   /\ store' = cvr']_vars

\* After a hydration at replica version 2 was flushed and committed, a
\* connecting client was caught up on its own to that durable version:
\* every client has committed the stored CVR's version.
C36_Witness ==
    /\ calls = << "end" >>
    /\ last.op = "initConnection"
    /\ last.ok
    /\ store.version[1] = 2
    /\ \A c \in Clients : cookies[c] = store.version

\* No initConnection, changeDesiredQueries or #deleteClient is in progress
\* or waits for the lock.
NoClientCall ==
    /\ ~lock.held
    /\ pendingDelete = {}
    /\ \A i \in 1..Len(lock.waiting) : lock.waiting[i].op = "run"

\* C37: whenever #versionChanges is active, no client call is in progress
\* or pending, and #clients is empty after a handler has been registered,
\* the idle timer is armed (#idleToken is set).
C37_IdleTimerArmed ==
    (/\ active
     /\ registered
     /\ NoClientCall
     /\ \A c \in Clients : ~clients[c].present)
    => idleToken.armed

\* C38: #cleanup (the pipelines destroyed, the handlers closed or failed)
\* never runs while an initConnection or changeDesiredQueries holds the
\* lock, so no request goes on with a destroyed pipeline.
C38_CleanupOutsideRequests ==
    [][(~pipeline.destroyed /\ pipeline'.destroyed) => ~lock.held]_vars

\* The client map at the 'clients' head.
HeadClients == getClientsAtHash(dagStore, dagStore.head)

\* The steps of an updateClients call: its write transaction commits, finds
\* a conflict; its update function returns noUpdates, or an updated map.
Commits(t) == tabs[t].at = "write" /\ tabs'[t].at = "returned"
Conflicts(t) == tabs[t].at = "write" /\ tabs'[t].at = "update"
NoUpdates(t) == tabs[t].at = "update" /\ tabs'[t].at = "returned"
Updates(t) == tabs[t].at = "update" /\ tabs'[t].at = "write"

\* C39: updateClients is a compare-and-swap with retry. A call writes the
\* head only in a write transaction that finds the head it computed its
\* update from, so the map committed is update(m) for the map m at the head
\* just before the commit, and it is the map returned; a write transaction
\* that finds another head writes nothing and the update function is run
\* again on the map at that head; an update of noUpdates writes nothing and
\* returns the map read; the head moves only by such a commit or a setClient.
C39_CompareAndSwap ==
    [][/\ \A t \in Tabs :
            /\ Commits(t) =>
                  /\ dagStore.head = tabs[t].clientsHash
                  /\ ~update(tabs[t].update, HeadClients).noUpdates
                  /\ HeadClients' = update(tabs[t].update, HeadClients).clients
                  /\ tabs'[t].result = HeadClients'
            /\ Conflicts(t) =>
                  /\ dagStore' = dagStore
                  /\ dagStore.head # tabs[t].clientsHash
                  /\ tabs'[t].clients = HeadClients
                  /\ tabs'[t].clientsHash = dagStore.head
                  /\ tabs'[t].update = tabs[t].update
            /\ NoUpdates(t) =>
                  /\ dagStore' = dagStore
                  /\ update(tabs[t].update, tabs[t].clients).noUpdates
                  /\ tabs'[t].result = tabs[t].clients
            /\ Updates(t) =>
                  /\ dagStore' = dagStore
                  /\ tabs'[t].updated = update(tabs[t].update, tabs[t].clients).clients
       /\ dagStore' # dagStore =>
             \/ \E t \in Tabs : Commits(t)
             \/ clientCalls'.sets # clientCalls.sets]_vars

\* Two calls ran concurrently, each setting another client; one found the
\* other's commit in its write transaction, ran its update again and
\* committed: the map at the head has both clients.
C39_Witness ==
    /\ \A t \in Tabs : tabs[t].at = "returned" /\ tabs[t].update.op = "set"
    /\ tabs["t1"].update.id # tabs["t2"].update.id
    /\ \E t \in Tabs : tabs[t].conflicts = 1 /\ tabs[t].result = HeadClients
    /\ \A id \in ClientIDs : HeadClients[id] = 0
    /\ clientCalls = [updates |-> 2, sets |-> 0]

\* The caller's call took a step, and the call is `op`.
ActsIn(h, op) == roomCalls'[h] # roomCalls[h] /\ roomCalls'[h].op = op

\* The record of the room the caller's call is about.
RoomOf(h) == rooms[roomCalls'[h].roomID]

\* C40: the room lifecycle is monotone. A record changes only by being
\* written Open where there was none, from Open to Closed or from Closed to
\* Deleted, the rest of it kept; a step of createRoom for a roomID that has
\* a record leaves the records as they are and the call returns an error; a
\* step of closeRoom for a room that is not Open, or of deleteRoom for a room
\* that is not Closed, leaves its record as it is.
C40_RoomLifecycle ==
    [][/\ \A id \in RoomIDs :
            \/ rooms'[id] = rooms[id]
            \/ rooms[id] = NoRoom /\ rooms'[id].status = Open
            \/ rooms[id].status = Open /\ rooms'[id] = [rooms[id] EXCEPT !.status = Closed]
            \/ rooms[id].status = Closed /\ rooms'[id] = [rooms[id] EXCEPT !.status = Deleted]
       /\ \A h \in Callers :
            /\ (ActsIn(h, "createRoom") /\ RoomOf(h) # NoRoom)
                  => /\ rooms' = rooms
                     /\ roomCalls'[h].at = "returned"
                           => roomCalls'[h].response \in ErrorResponses
            /\ (ActsIn(h, "closeRoom") /\ roomCalls'[h].roomID \in RoomIDs
                  /\ RoomOf(h).status # Open)
                  => rooms' = rooms
            /\ (ActsIn(h, "deleteRoom") /\ roomCalls'[h].roomID \in RoomIDs
                  /\ RoomOf(h).status # Closed)
                  => rooms' = rooms]_vars

\* Two createRoom calls for one roomID ran side by side: one made the room
\* and the other was refused; the room was then closed and deleted.
C40_Witness ==
    /\ rooms[<< "r", "1" >>].status = Deleted
    /\ roomCalls["h1"].op = "createRoom"
    /\ roomCalls["h1"].response = "room already exists"
    /\ roomCalls["h2"].op = "deleteRoom"
    /\ roomCalls["h2"].response = Success

====
